---- MODULE Spec2Model ----
(***************************************************************************)
(* Queue-driven nested menu dispatchers of the terminal: the stocks menus  *)
(* fa (fundamental analysis), fmp (its sub-menu), pred (prediction         *)
(* techniques) and qa (quantitative analysis), under the stocks menu and   *)
(* the terminal root.                                                      *)
(*                                                                         *)
(* A command line is a sequence of one-character strings, so that          *)
(* str.split, str.join and difflib act on characters as they do in Python. *)
(***************************************************************************)
EXTENDS Integers, Sequences, FiniteSets, TLC

(***************************************************************************)
(* Bounds of the model.                                                    *)
(***************************************************************************)
\* longest queue a dispatcher may hold
MaxQueue == 9
\* longest record of events kept since the last interactive read
MaxLog == 10
\* the counters of notices and help displays saturate here
MaxCount == 3

(***************************************************************************)
(* Characters and strings.                                                 *)
(***************************************************************************)
\* the characters that occur in the lines of the model, in code-point order
Alphabet ==
    << " ", "+", "-", ".", "/", "0", "1", "2", "3", "4", "5", "6", "7", "8",
       "9", "=", "?", "A", "B", "C", "D", "E", "F", "G", "H",
       "I", "J", "K", "L", "M", "N", "O", "P", "Q", "R", "S", "T", "U",
       "V", "W", "X", "Y", "Z", "_", "a", "b", "c", "d", "e", "f", "g",
       "h", "i", "j", "k", "l", "m", "n", "o", "p", "q", "r", "s", "t",
       "u", "v", "w", "x", "y", "z" >>

Ord(c) == CHOOSE i \in 1..Len(Alphabet) : Alphabet[i] = c

\* str < str of Python: lexicographic by code point, a proper prefix is smaller
RECURSIVE StrLess(_, _)
StrLess(s, t) ==
    IF t = <<>> THEN FALSE
    ELSE IF s = <<>> THEN TRUE
    ELSE IF Head(s) = Head(t) THEN StrLess(Tail(s), Tail(t))
    ELSE Ord(Head(s)) < Ord(Head(t))

\* the index of the first occurrence of character c in s, 0 when absent
RECURSIVE IndexOf(_, _)
IndexOf(s, c) ==
    IF s = <<>> THEN 0
    ELSE IF Head(s) = c THEN 1
    ELSE LET r == IndexOf(Tail(s), c) IN IF r = 0 THEN 0 ELSE r + 1

Contains(s, c) == IndexOf(s, c) # 0

\* s.split(c): the pieces between the occurrences of c, empty pieces kept
RECURSIVE SplitOn(_, _)
SplitOn(s, c) ==
    LET i == IndexOf(s, c) IN
    IF i = 0 THEN << s >>
    ELSE << SubSeq(s, 1, i - 1) >> \o SplitOn(SubSeq(s, i + 1, Len(s)), c)

\* c.join(parts)
RECURSIVE JoinWith(_, _)
JoinWith(parts, c) ==
    IF parts = <<>> THEN <<>>
    ELSE IF Len(parts) = 1 THEN parts[1]
    ELSE parts[1] \o << c >> \o JoinWith(Tail(parts), c)

\* the elements of a sequence of strings that are not empty, in order
RECURSIVE NonEmpty(_)
NonEmpty(parts) ==
    IF parts = <<>> THEN <<>>
    ELSE IF Head(parts) = <<>> THEN NonEmpty(Tail(parts))
    ELSE << Head(parts) >> \o NonEmpty(Tail(parts))

\* s.split(): the words between runs of blanks
SplitWords(s) == NonEmpty(SplitOn(s, " "))

\* the membership test of Python: x in list
InList(x, list) == \E i \in 1..Len(list) : list[i] = x

(***************************************************************************)
(* difflib: SequenceMatcher.ratio and get_close_matches, as the menus use  *)
(* them (no junk, sequences far shorter than the autojunk length).         *)
(***************************************************************************)
\* the similarity a match must reach: cutoff=0.7, kept as the fraction 7/10
CutoffNum == 7
CutoffDen == 10

\* the length of the common run of a[i..ahi] and b[j..bhi]
RECURSIVE RunLen(_, _, _, _, _, _)
RunLen(a, b, i, j, ahi, bhi) ==
    IF i > ahi \/ j > bhi THEN 0
    ELSE IF a[i] # b[j] THEN 0
    ELSE 1 + RunLen(a, b, i + 1, j + 1, ahi, bhi)

MaxOf(S) == CHOOSE k \in S : \A n \in S : n <= k

MinOf(S) == CHOOSE k \in S : \A n \in S : k <= n

\* the common run starting at each pair of positions of a[alo..ahi], b[blo..bhi]
RunTable(a, b, alo, ahi, blo, bhi) ==
    [i \in alo..ahi |-> [j \in blo..bhi |-> RunLen(a, b, i, j, ahi, bhi)]]

\* the block of size bestsize that starts at besti in a: the earliest in b
block_at(run, blo, bhi, bestsize, besti) ==
    [i |-> besti,
     j |-> MinOf({ j \in blo..bhi : run[besti][j] = bestsize }),
     k |-> bestsize]

\* the block of size bestsize that starts earliest in a
block_of(run, alo, ahi, blo, bhi, bestsize) ==
    IF bestsize = 0 THEN [i |-> alo, j |-> blo, k |-> 0]
    ELSE block_at(run, blo, bhi, bestsize,
                  MinOf({ i \in alo..ahi :
                            \E j \in blo..bhi : run[i][j] = bestsize }))

longest_in(run, alo, ahi, blo, bhi) ==
    block_of(run, alo, ahi, blo, bhi,
             MaxOf({ run[i][j] : i \in alo..ahi, j \in blo..bhi }))

\* SequenceMatcher.find_longest_match on a[alo..ahi], b[blo..bhi]: the longest
\* common block, the one starting earliest in a, then earliest in b; without
\* a common character the block (alo, blo, 0)
find_longest_match(a, b, alo, ahi, blo, bhi) ==
    IF alo > ahi \/ blo > bhi THEN [i |-> alo, j |-> blo, k |-> 0]
    ELSE longest_in(RunTable(a, b, alo, ahi, blo, bhi), alo, ahi, blo, bhi)

\* the number of matched characters: the sizes of get_matching_blocks summed,
\* the longest block m and the matches on its left and on its right
RECURSIVE Matches(_, _, _, _, _, _)
RECURSIVE MatchesAround(_, _, _, _, _, _, _)
MatchesAround(a, b, alo, ahi, blo, bhi, m) ==
    IF m.k = 0 THEN 0
    ELSE m.k + Matches(a, b, alo, m.i - 1, blo, m.j - 1)
             + Matches(a, b, m.i + m.k, ahi, m.j + m.k, bhi)

Matches(a, b, alo, ahi, blo, bhi) ==
    MatchesAround(a, b, alo, ahi, blo, bhi,
                  find_longest_match(a, b, alo, ahi, blo, bhi))

\* SequenceMatcher(None, a, b).ratio() as the fraction num/den = 2*M/T
ratio(a, b) ==
    [num |-> 2 * Matches(a, b, 1, Len(a), 1, Len(b)), den |-> Len(a) + Len(b)]

\* real_quick_ratio(): the bound 2*min(la, lb)/(la + lb)
real_quick_ratio(a, b) ==
    [num |-> 2 * (IF Len(a) < Len(b) THEN Len(a) ELSE Len(b)),
     den |-> Len(a) + Len(b)]

\* the number of times c occurs in s[1..n]
Count(s, n, c) == Cardinality({ i \in 1..n : s[i] = c })

\* quick_ratio(): the bound from the characters the two have in common,
\* counted with multiplicity
quick_ratio(a, b) ==
    [num |-> 2 * Cardinality({ i \in 1..Len(a) :
                                 Count(a, i, a[i]) <= Count(b, Len(b), a[i]) }),
     den |-> Len(a) + Len(b)]

\* r >= cutoff (a ratio over nothing is 1.0)
ClearsCutoff(r) ==
    IF r.den = 0 THEN TRUE ELSE r.num * CutoffDen >= CutoffNum * r.den

\* the order of the (score, x) tuples that heapq.nlargest compares
ScoreLess(r1, x1, r2, x2) ==
    \/ r1.num * r2.den < r2.num * r1.den
    \/ r1.num * r2.den = r2.num * r1.den /\ StrLess(x1, x2)

\* "if s.real_quick_ratio() >= cutoff and s.quick_ratio() >= cutoff and
\* s.ratio() >= cutoff"
is_close(x, word) ==
    /\ ClearsCutoff(real_quick_ratio(x, word))
    /\ ClearsCutoff(quick_ratio(x, word))
    /\ ClearsCutoff(ratio(x, word))

\* heapq.nlargest(1, result): the possibility with the largest (score, x)
nlargest(possibilities, good, score) ==
    << possibilities[CHOOSE i \in good :
                       \A j \in good :
                           ~ScoreLess(score[i], possibilities[i],
                                      score[j], possibilities[j])] >>

best_match(word, possibilities, good) ==
    IF good = {} THEN << >>
    ELSE nlargest(possibilities, good,
                  [i \in good |-> ratio(possibilities[i], word)])

\* difflib.get_close_matches(word, possibilities, n=1, cutoff=0.7): the list
\* holding the best possibility that clears the cutoff, or the empty list
get_close_matches(word, possibilities) ==
    best_match(word, possibilities,
               { i \in 1..Len(possibilities) : is_close(possibilities[i], word) })

(***************************************************************************)
(* The command names the dispatchers act on, and the legal names of each   *)
(* menu (CHOICES), in the order and with the repetitions of the source.    *)
(***************************************************************************)
w_cls == <<"c", "l", "s">>
w_home == <<"h", "o", "m", "e">>
w_h == <<"h">>
w_qmark == <<"?">>
w_help == <<"h", "e", "l", "p">>
w_q == <<"q">>
w_quit == <<"q", "u", "i", "t">>
w_dotdot == <<".", ".">>
w_exit == <<"e", "x", "i", "t">>
w_r == <<"r">>
w_reset == <<"r", "e", "s", "e", "t">>
w_load == <<"l", "o", "a", "d">>
w_pick == <<"p", "i", "c", "k">>
w_stocks == <<"s", "t", "o", "c", "k", "s">>
w_fa == <<"f", "a">>
w_fmp == <<"f", "m", "p">>
w_pred == <<"p", "r", "e", "d">>
w_qa == <<"q", "a">>
w_rnn == <<"r", "n", "n">>
w_lstm == <<"l", "s", "t", "m">>
w_conv1d == <<"c", "o", "n", "v", "1", "d">>
\* the seed of a menu's an_input
HELP_ME == <<"H", "E", "L", "P", "_", "M", "E">>

\* the universal commands every menu starts its CHOICES with
CHOICES_UNIVERSAL ==
    << w_cls, w_home, w_h, w_qmark, w_help, w_q, w_quit, w_dotdot, w_exit,
       w_r, w_reset >>

fa_CHOICES_COMMANDS ==
    << w_load, <<"a", "n", "a", "l", "y", "s", "i", "s">>,
       <<"s", "c", "o", "r", "e">>, <<"w", "a", "r", "n", "i", "n", "g", "s">>,
       <<"d", "a", "t", "a">>, <<"i", "n", "c", "o", "m", "e">>,
       <<"b", "a", "l", "a", "n", "c", "e">>, <<"c", "a", "s", "h">>, <<"m", "g", "m", "t">>,
       <<"i", "n", "f", "o">>, <<"s", "h", "r", "s">>, <<"s", "u", "s", "t">>, <<"c", "a", "l">>,
       <<"w", "e", "b">>, <<"h", "q">>, <<"o", "v", "e", "r", "v", "i", "e", "w">>,
       <<"k", "e", "y">>, <<"i", "n", "c", "o", "m", "e">>,
       <<"b", "a", "l", "a", "n", "c", "e">>, <<"c", "a", "s", "h">>, <<"d", "i", "v", "s">>,
       <<"e", "a", "r", "n", "i", "n", "g", "s">>, <<"f", "r", "a", "u", "d">> >>

fa_CHOICES_MENUS == << w_fmp >>

fa_CHOICES == CHOICES_UNIVERSAL \o fa_CHOICES_COMMANDS \o fa_CHOICES_MENUS

fmp_CHOICES_COMMANDS ==
    << <<"p", "r", "o", "f", "i", "l", "e">>, <<"q", "u", "o", "t", "e">>,
       <<"e", "n", "t", "e", "r", "p", "r", "i", "s", "e">>, <<"d", "c", "f">>,
       <<"i", "n", "c", "o", "m", "e">>, <<"b", "a", "l", "a", "n", "c", "e">>,
       <<"c", "a", "s", "h">>, <<"m", "e", "t", "r", "i", "c", "s">>,
       <<"r", "a", "t", "i", "o", "s">>, <<"g", "r", "o", "w", "t", "h">> >>

fmp_CHOICES == CHOICES_UNIVERSAL \o fmp_CHOICES_COMMANDS

pred_CHOICES_COMMANDS ==
    << w_load, w_pick, <<"e", "t", "s">>, <<"k", "n", "n">>,
       <<"r", "e", "g", "r", "e", "s", "s", "i", "o", "n">>, <<"a", "r", "i", "m", "a">>,
       <<"m", "l", "p">>, w_rnn, w_lstm, w_conv1d, <<"m", "c">> >>

pred_CHOICES == CHOICES_UNIVERSAL \o pred_CHOICES_COMMANDS

qa_CHOICES_COMMANDS ==
    << w_load, w_pick, <<"r", "a", "w">>, <<"s", "u", "m", "m", "a", "r", "y">>,
       <<"h", "i", "s", "t">>, <<"c", "d", "f">>, <<"b", "w">>,
       <<"r", "o", "l", "l", "i", "n", "g">>, <<"d", "e", "c", "o", "m", "p", "o", "s", "e">>,
       <<"c", "u", "s", "u", "m">>, <<"a", "c", "f">>, <<"s", "p", "r", "e", "a", "d">>,
       <<"q", "u", "a", "n", "t", "i", "l", "e">>, <<"s", "k", "e", "w">>,
       <<"k", "u", "r", "t", "o", "s", "i", "s">>, <<"n", "o", "r", "m", "a", "l", "i", "t", "y">>,
       <<"q", "q", "p", "l", "o", "t">>, <<"u", "n", "i", "t", "r", "o", "o", "t">>,
       <<"g", "o", "o", "d", "n", "e", "s", "s">>, <<"u", "n", "i", "t", "r", "o", "o", "t">>,
       <<"c", "a", "p", "m">> >>

qa_CHOICES == CHOICES_UNIVERSAL \o qa_CHOICES_COMMANDS

\* the stocks menu and the terminal root: the universal commands, the reload
\* command and the sub-menu commands the navigation paths name
stocks_CHOICES == CHOICES_UNIVERSAL \o << w_load >> \o << w_fa, w_pred, w_qa >>

terminal_CHOICES == CHOICES_UNIVERSAL \o << w_stocks >>

Menus == { "terminal", "stocks", "fa", "fmp", "pred", "qa" }

CHOICES(menu) ==
    CASE menu = "fa" -> fa_CHOICES
      [] menu = "fmp" -> fmp_CHOICES
      [] menu = "pred" -> pred_CHOICES
      [] menu = "qa" -> qa_CHOICES
      [] menu = "stocks" -> stocks_CHOICES
      [] menu = "terminal" -> terminal_CHOICES

CHOICES_COMMANDS(menu) ==
    CASE menu = "fa" -> fa_CHOICES_COMMANDS
      [] menu = "fmp" -> fmp_CHOICES_COMMANDS
      [] menu = "pred" -> pred_CHOICES_COMMANDS
      [] menu = "qa" -> qa_CHOICES_COMMANDS
      [] menu = "stocks" -> << w_load >>
      [] menu = "terminal" -> << >>

(***************************************************************************)
(* The menu parser: argparse.parse_known_args with the one positional      *)
(* argument cmd, choices=CHOICES, and no options (add_help=False).         *)
(***************************************************************************)
Digits == { "0", "1", "2", "3", "4", "5", "6", "7", "8", "9" }

IsDigits(s) == s # <<>> /\ \A i \in 1..Len(s) : s[i] \in Digits

\* argparse's negative-number pattern: -\d+ or -\d*\.\d+
NegativeNumberLike(tok) ==
    /\ Len(tok) >= 2
    /\ tok[1] = "-"
    /\ LET rest == Tail(tok)
           dot == IndexOf(rest, ".")
       IN  \/ IsDigits(rest)
           \/ /\ dot # 0
              /\ \A i \in 1..(dot - 1) : rest[i] \in Digits
              /\ IsDigits(SubSeq(rest, dot + 1, Len(rest)))

\* argparse takes a word for an option when it starts with the prefix character,
\* is longer than the prefix and is no negative number; a lone "-" is positional.
\* (The lines of the model hold no "--" word.)
IsOptionString(tok) ==
    Len(tok) >= 2 /\ tok[1] = "-" /\ ~NegativeNumberLike(tok)

\* s with its i-th element removed
RemoveAt(s, i) == SubSeq(s, 1, i - 1) \o SubSeq(s, i + 1, Len(s))

\* parse_known_args(an_input.split()): cmd is the first positional word, it
\* must be one of the choices, every other word is left in other_args;
\* ok = FALSE stands for parser.error, which raises SystemExit
\* parse_known_args of a parser whose cmd has no choices: any first word is
\* taken as the command
parse_known_args_any(words, choices) ==
    LET positional == { i \in 1..Len(words) : ~IsOptionString(words[i]) }
        first == CHOOSE i \in positional : \A j \in positional : i <= j
    IN  IF positional = {} THEN [ok |-> FALSE, cmd |-> <<>>, other_args |-> words]
        ELSE [ok |-> TRUE, cmd |-> words[first],
              other_args |-> RemoveAt(words, first)]

parse_known_args(words, choices) ==
    LET positional == { i \in 1..Len(words) : ~IsOptionString(words[i]) }
        first == CHOOSE i \in positional : \A j \in positional : i <= j
    IN  IF positional = {} THEN [ok |-> FALSE, cmd |-> <<>>, other_args |-> words]
        ELSE IF ~InList(words[first], choices)
             THEN [ok |-> FALSE, cmd |-> words[first], other_args |-> words]
        ELSE [ok |-> TRUE, cmd |-> words[first],
              other_args |-> RemoveAt(words, first)]

\* resolve_alias that takes h for home
resolve_alias_h_home(cmd) ==
    IF cmd \in { w_dotdot, w_q } THEN w_quit
    ELSE IF cmd = w_qmark THEN w_help
    ELSE IF cmd = w_h THEN w_home
    ELSE IF cmd = w_r THEN w_reset
    ELSE cmd

\* "Redirect commands to their correct functions": the aliases of switch
resolve_alias(cmd) ==
    IF cmd \in { w_dotdot, w_q } THEN w_quit
    ELSE IF cmd \in { w_qmark, w_h } THEN w_help
    ELSE IF cmd = w_r THEN w_reset
    ELSE cmd

\* getattr(self, "call_" + cmd, default): every legal name of the four menus
\* has a call_ method except goodness in qa, which falls to the default
\* lambda that does nothing
HasHandler(menu, cmd) == ~(menu = "qa" /\ cmd = <<"g", "o", "o", "d", "n", "e", "s", "s">>)

(***************************************************************************)
(* The universal commands that act on the queue; each insert(0, x) puts x  *)
(* in front, so the last insert of a handler is the first line of the queue *)
(***************************************************************************)
fa_call_home(queue) == << w_quit, w_quit >> \o queue

fa_call_quit(queue) == << w_quit >> \o queue

\* call_exit with one "quit" too few: the root is left running
fa_call_exit_short(queue) == << w_quit, w_quit >> \o queue

fa_call_exit(queue) == << w_quit, w_quit, w_quit >> \o queue

\* call_reset that enters the menu again before the ticker is loaded
fa_call_reset_load_last(queue, ticker) ==
    << w_quit, w_quit, w_reset, w_stocks, w_fa >>
        \o (IF ticker # <<>> THEN << w_load \o << " " >> \o ticker >> ELSE << >>)
        \o queue

fa_call_reset(queue, ticker) ==
    << w_quit, w_quit, w_reset, w_stocks >>
        \o (IF ticker # <<>> THEN << w_load \o << " " >> \o ticker >> ELSE << >>)
        \o << w_fa >> \o queue

\* call_home with the two "quit" of the menus one level up
fmp_call_home_short(queue) == << w_quit, w_quit >> \o queue

fmp_call_home(queue) == << w_quit, w_quit, w_quit >> \o queue

fmp_call_quit(queue) == << w_quit >> \o queue

fmp_call_exit(queue) == << w_quit, w_quit, w_quit, w_quit >> \o queue

fmp_call_reset(queue, ticker) ==
    << w_quit, w_quit, w_quit, w_reset, w_stocks >>
        \o (IF ticker # <<>> THEN << w_load \o << " " >> \o ticker >> ELSE << >>)
        \o << w_fa, w_fmp >> \o queue

pred_call_home(queue) == << w_quit, w_quit >> \o queue

pred_call_quit(queue) == << w_quit >> \o queue

pred_call_exit(queue) == << w_quit, w_quit, w_quit >> \o queue

pred_call_reset(queue, ticker) ==
    << w_quit, w_quit, w_reset, w_stocks >>
        \o (IF ticker # <<>> THEN << w_load \o << " " >> \o ticker >> ELSE << >>)
        \o << w_pred >> \o queue

\* call_home with one "quit" only
qa_call_home_short(queue) == << w_quit >> \o queue

qa_call_home(queue) == << w_quit, w_quit >> \o queue

qa_call_quit(queue) == << w_quit >> \o queue

qa_call_exit(queue) == << w_quit, w_quit, w_quit >> \o queue

qa_call_reset(queue, ticker) ==
    << w_quit, w_quit, w_reset, w_stocks >>
        \o (IF ticker # <<>> THEN << w_load \o << " " >> \o ticker >> ELSE << >>)
        \o << w_qa >> \o queue

\* The stocks menu (one level below the root) and the terminal root, after the
\* universal command semantics: home unwinds to the root, exit unwinds the
\* whole application, reset unwinds to the root and replays the way back.
stocks_call_home(queue) == << w_quit >> \o queue

stocks_call_quit(queue) == << w_quit >> \o queue

stocks_call_exit(queue) == << w_quit, w_quit >> \o queue

stocks_call_reset(queue, ticker) ==
    << w_quit, w_reset, w_stocks >>
        \o (IF ticker # <<>> THEN << w_load \o << " " >> \o ticker >> ELSE << >>)
        \o queue

terminal_call_home(queue) == queue

terminal_call_quit(queue) == << w_quit >> \o queue

terminal_call_exit(queue) == << w_quit >> \o queue

\* at the root reset restarts the application, which then goes on with the queue
terminal_call_reset(queue, ticker) == queue

call_home(menu, queue) ==
    CASE menu = "fa" -> fa_call_home(queue)
      [] menu = "fmp" -> fmp_call_home(queue)
      [] menu = "pred" -> pred_call_home(queue)
      [] menu = "qa" -> qa_call_home(queue)
      [] menu = "stocks" -> stocks_call_home(queue)
      [] menu = "terminal" -> terminal_call_home(queue)

\* call_quit that inserts the token twice, as call_home does
call_quit_twice(menu, queue) == << w_quit, w_quit >> \o queue

call_quit(menu, queue) ==
    CASE menu = "fa" -> fa_call_quit(queue)
      [] menu = "fmp" -> fmp_call_quit(queue)
      [] menu = "pred" -> pred_call_quit(queue)
      [] menu = "qa" -> qa_call_quit(queue)
      [] menu = "stocks" -> stocks_call_quit(queue)
      [] menu = "terminal" -> terminal_call_quit(queue)

call_exit(menu, queue) ==
    CASE menu = "fa" -> fa_call_exit(queue)
      [] menu = "fmp" -> fmp_call_exit(queue)
      [] menu = "pred" -> pred_call_exit(queue)
      [] menu = "qa" -> qa_call_exit(queue)
      [] menu = "stocks" -> stocks_call_exit(queue)
      [] menu = "terminal" -> terminal_call_exit(queue)

call_reset(menu, queue, ticker) ==
    CASE menu = "fa" -> fa_call_reset(queue, ticker)
      [] menu = "fmp" -> fmp_call_reset(queue, ticker)
      [] menu = "pred" -> pred_call_reset(queue, ticker)
      [] menu = "qa" -> qa_call_reset(queue, ticker)
      [] menu = "stocks" -> stocks_call_reset(queue, ticker)
      [] menu = "terminal" -> terminal_call_reset(queue, ticker)

(***************************************************************************)
(* Leaf commands.  What the external collaborator of a leaf command does   *)
(* is the environment's choice, out:                                       *)
(*   "ok"     it returns (for load: a dataset that is not empty),          *)
(*   "nodata" it returns (for load: an empty dataset),                     *)
(*   "error"  it raises an Exception,                                      *)
(*   "exit"   it raises SystemExit.                                        *)
(* A handler under @try_except keeps whatever is raised inside it; the     *)
(* handlers without it are load in pred and qa (no handler at all) and     *)
(* rnn, lstm, conv1d in pred (except Exception only).                      *)
(***************************************************************************)
Outcomes == { "ok", "nodata", "error", "exit" }

ToUpper(c) ==
    IF Ord(c) >= Ord("a") /\ Ord(c) <= Ord("z")
    THEN Alphabet[Ord(c) - (Ord("a") - Ord("A"))]
    ELSE c

\* str.upper()
Upper(s) == [i \in 1..Len(s) |-> ToUpper(s[i])]

\* "For the case where a user uses: 'load BB'"
prepend_flag(other_args) ==
    IF /\ other_args # << >>
       /\ ~InList(<<"-", "t">>, other_args)
       /\ ~InList(<<"-", "h">>, other_args)
    THEN << <<"-", "t">> >> \o other_args
    ELSE other_args

(***************************************************************************)
(* argparse, as far as the parsers of load and pick use it: options with   *)
(* one value or with none, no positional argument, abbreviations allowed.  *)
(***************************************************************************)
\* parser.add_argument of an option: its option strings, its dest, the type
\* of its value ("store_true" when it takes none) and whether it is required
Option(strings, dest, type, required) ==
    [strings |-> strings, dest |-> dest, type |-> type,
     required |-> required]

\* the keys of parser._option_string_actions
option_strings(parser) == UNION { o.strings : o \in parser }

\* parser._option_string_actions[option_string]
action_of(parser, option_string) ==
    CHOOSE o \in parser : option_string \in o.strings

\* str.startswith
startswith(s, prefix) ==
    Len(prefix) <= Len(s) /\ SubSeq(s, 1, Len(prefix)) = prefix

\* the number a decimal numeral writes
RECURSIVE Num(_)
Num(s) ==
    IF s = << >> THEN 0
    ELSE 10 * Num(SubSeq(s, 1, Len(s) - 1)) + (Ord(s[Len(s)]) - Ord("0"))

\* s.replace(c, "")
RECURSIVE Without(_, _)
Without(s, c) ==
    IF s = << >> THEN << >>
    ELSE (IF Head(s) = c THEN << >> ELSE << Head(s) >>) \o Without(Tail(s), c)

\* a decimal numeral without its leading zeros
RECURSIVE StripZeros(_)
StripZeros(s) ==
    IF Len(s) > 1 /\ s[1] = "0" THEN StripZeros(Tail(s)) ELSE s

\* a numeral of one digit written with two
zfill2(s) == IF Len(s) = 1 THEN << "0" >> \o s ELSE s

\* calendar.monthrange(year, month)[1]
days_in_month(year, month) ==
    IF month = 2
    THEN IF year % 4 = 0 /\ (year % 100 # 0 \/ year % 400 = 0) THEN 29 ELSE 28
    ELSE IF month \in { 4, 6, 9, 11 } THEN 30 ELSE 31

\* the digits of %d, which also takes a blank before one digit from 1 to 9
day_digits(d) ==
    IF Len(d) = 2 /\ d[1] = " " /\ d[2] # "0" THEN Tail(d) ELSE d

\* the date of the fields %Y, %m and %d: four digits, one or two, one or
\* two, of a day of the calendar of a year from 1 on
date_of(Y, m, d) ==
    IF /\ Len(Y) = 4 /\ IsDigits(Y)
       /\ Len(m) \in { 1, 2 } /\ IsDigits(m)
       /\ Len(d) \in { 1, 2 } /\ IsDigits(d)
       /\ Num(Y) >= 1
       /\ Num(m) \in 1..12
       /\ Num(d) \in 1..days_in_month(Num(Y), Num(m))
    THEN [ok |-> TRUE,
          value |-> Y \o << "-" >> \o zfill2(m) \o << "-" >> \o zfill2(d)]
    ELSE [ok |-> FALSE, value |-> << >>]

\* strptime of the fields between the "-" of the word
strptime(parts) ==
    IF Len(parts) = 3
    THEN date_of(parts[1], parts[2], day_digits(parts[3]))
    ELSE [ok |-> FALSE, value |-> << >>]

\* valid_date: datetime.strptime(s, "%Y-%m-%d"); ok = FALSE stands for
\* ArgumentTypeError, the value is the date as strftime("%Y-%m-%d") writes it
valid_date(s) == strptime(SplitOn(s, "-"))

\* the integer of a sign and a numeral, as str writes it
signed_int(negative, digits) ==
    IF negative /\ digits # << "0" >> THEN << "-" >> \o digits ELSE digits

\* int of a sign and what follows it: digits with single underscores between
int_of(negative, body) ==
    IF \A i \in 1..Len(SplitOn(body, "_")) : IsDigits(SplitOn(body, "_")[i])
    THEN [ok |-> TRUE,
          value |-> signed_int(negative, StripZeros(Without(body, "_")))]
    ELSE [ok |-> FALSE, value |-> << >>]

\* int(s) of a word without blanks; ok = FALSE stands for ValueError, the
\* value is str(int(s))
int(s) ==
    IF s # << >> /\ s[1] \in { "+", "-" }
    THEN int_of(s[1] = "-", Tail(s))
    ELSE int_of(FALSE, s)

\* stocks_helper.INTERVALS, stock_interval of qa
INTERVALS == { <<"1">>, <<"5">>, <<"1", "5">>, <<"3", "0">>, <<"6", "0">> }

\* stocks_helper.SOURCES, stock_sources of qa
SOURCES == { <<"y", "f">>, <<"a", "v">>, <<"i", "e", "x">> }

\* list(self.stock.columns) after the constructor
Columns ==
    { <<"O", "p", "e", "n">>, <<"H", "i", "g", "h">>, <<"L", "o", "w">>, <<"C", "l", "o", "s", "e">>, <<"A", "d", "j", "C", "l", "o", "s", "e">>, <<"V", "o", "l", "u", "m", "e">>,
      <<"R", "e", "t", "u", "r", "n", "s">>, <<"L", "o", "g", "R", "e", "t">> }

\* _check_value: a converted value must be one of the choices
check_value(v, choices) ==
    [ok |-> v.ok /\ v.value \in choices, value |-> v.value]

\* _get_value and _check_value of an option's argument: the conversion by
\* the type of the option, then the test of its choices
get_value(type, arg_string) ==
    CASE type = "valid_date" -> valid_date(arg_string)
      [] type = "int, INTERVALS" -> check_value(int(arg_string), INTERVALS)
      [] type = "SOURCES" ->
            [ok |-> arg_string \in SOURCES, value |-> arg_string]
      [] type = "columns" ->
            [ok |-> arg_string \in Columns, value |-> arg_string]
      [] type = "EXPORT_ONLY_RAW_DATA_ALLOWED" ->
            [ok |-> arg_string \in { <<"c", "s", "v">>, <<"j", "s", "o", "n">>, <<"x", "l", "s", "x">> },
             value |-> arg_string]
      [] type = "EXPORT_ONLY_FIGURES_ALLOWED" ->
            [ok |-> arg_string \in { <<"p", "n", "g">>, <<"j", "p", "g">>, <<"p", "d", "f">>, <<"s", "v", "g">> },
             value |-> arg_string]
      [] OTHER -> [ok |-> TRUE, value |-> arg_string]

\* the options a word in "--" abbreviates: those it is a prefix of up to its
\* "=" at eq (0 when it has none), the rest being the argument
long_option_tuples(names, arg_string, eq) ==
    { [kind |-> "O", option_string |-> s,
       explicit_arg |-> IF eq = 0 THEN << >>
                        ELSE SubSeq(arg_string, eq + 1, Len(arg_string)),
       given |-> eq # 0] :
        s \in { o \in names :
                  startswith(o, IF eq = 0 THEN arg_string
                                ELSE SubSeq(arg_string, 1, eq - 1)) } }

\* the options a word in one "-" stands for: the option of its first two
\* characters, the rest being the argument, and those it is a prefix of
short_option_tuples(names, arg_string) ==
    { [kind |-> "O", option_string |-> s,
       explicit_arg |-> SubSeq(arg_string, 3, Len(arg_string)),
       given |-> TRUE] :
        s \in { o \in names : o = SubSeq(arg_string, 1, 2) } }
    \cup
    { [kind |-> "O", option_string |-> s, explicit_arg |-> << >>,
       given |-> FALSE] :
        s \in { o \in names :
                  o # SubSeq(arg_string, 1, 2) /\ startswith(o, arg_string) } }

\* _get_option_tuples of a word of two characters or more that begins with "-"
get_option_tuples(names, arg_string) ==
    IF arg_string[2] = "-"
    THEN long_option_tuples(names, arg_string, IndexOf(arg_string, "="))
    ELSE short_option_tuples(names, arg_string)

\* an argument: _parse_optional returns None
positional_argument ==
    [kind |-> "A", option_string |-> << >>, explicit_arg |-> << >>,
     given |-> FALSE]

\* the end of _parse_optional, for a word that is no option string: the one
\* option it abbreviates, an error when it abbreviates several, else an
\* argument when it is a negative number or holds a blank, else an option
\* the parser does not know
abbreviation(arg_string, option_tuples) ==
    IF Cardinality(option_tuples) > 1
    THEN [kind |-> "ambiguous", option_string |-> << >>,
          explicit_arg |-> << >>, given |-> FALSE]
    ELSE IF Cardinality(option_tuples) = 1
    THEN CHOOSE t \in option_tuples : TRUE
    ELSE IF NegativeNumberLike(arg_string) \/ Contains(arg_string, " ")
    THEN positional_argument
    ELSE [kind |-> "unknown", option_string |-> << >>,
          explicit_arg |-> << >>, given |-> FALSE]

\* _parse_optional of a word with its "=" at eq (0 when it has none).  "A" is
\* an argument, "O" an option of the parser (with the argument written in the
\* same word, when given), "unknown" and "ambiguous" as above
parse_optional_at(names, arg_string, eq) ==
    IF arg_string = << >> THEN positional_argument
    ELSE IF arg_string[1] # "-" THEN positional_argument
    ELSE IF arg_string \in names
    THEN [kind |-> "O", option_string |-> arg_string,
          explicit_arg |-> << >>, given |-> FALSE]
    ELSE IF Len(arg_string) = 1 THEN positional_argument
    ELSE IF eq # 0 /\ SubSeq(arg_string, 1, eq - 1) \in names
    THEN [kind |-> "O",
          option_string |-> SubSeq(arg_string, 1, eq - 1),
          explicit_arg |-> SubSeq(arg_string, eq + 1, Len(arg_string)),
          given |-> TRUE]
    ELSE abbreviation(arg_string, get_option_tuples(names, arg_string))

\* _parse_optional
parse_optional(parser, arg_string) ==
    parse_optional_at(option_strings(parser), arg_string,
                      IndexOf(arg_string, "="))

\* no namespace: parser.error, which raises SystemExit
no_namespace == [ok |-> FALSE, ns |-> << >>]

\* where the parse stands: ok, the index of the word to take next, the
\* option of the next character when that word goes on after an option
\* without a value (chained), and ns, which maps the dest of every option
\* seen so far to its value, the last one given (a store_true option maps
\* to the empty word)
parse_state(ok, index, chained, tuple, ns) ==
    [ok |-> ok, index |-> index, chained |-> chained, tuple |-> tuple,
     ns |-> ns]

parse_error == parse_state(FALSE, 0, FALSE, positional_argument, << >>)

\* take_action of an option with a value: the value is stored when there is
\* one and it is one the option takes
store(index, dest, has_arg, v, ns) ==
    IF has_arg /\ v.ok
    THEN parse_state(TRUE, index, FALSE, positional_argument,
                     (dest :> v.value) @@ ns)
    ELSE parse_error

\* consume_optional of the option tuple t found at start_index, with the
\* action of its option string.  An option with a value takes the argument
\* written in its word, else the next word, which must be an argument
\* (next_is_A); an option without a value whose word goes on after a single
\* "-" hands the rest to the option of the next character (next_is_option),
\* and any other argument written in its word is an error.
consume_action(arg_strings, start_index, t, action, next_is_A, next_is_option, ns) ==
    IF action.type = "store_true"
    THEN IF ~t.given
         THEN parse_state(TRUE, start_index + 1, FALSE, positional_argument,
                          (action.dest :> << >>) @@ ns)
         ELSE IF /\ t.option_string[2] # "-"
                 /\ t.explicit_arg # << >>
                 /\ next_is_option
         THEN parse_state(TRUE, start_index, TRUE,
                          [kind |-> "O",
                           option_string |-> << "-", t.explicit_arg[1] >>,
                           explicit_arg |-> Tail(t.explicit_arg),
                           given |-> Len(t.explicit_arg) > 1],
                          (action.dest :> << >>) @@ ns)
         ELSE parse_error
    ELSE IF t.given
    THEN store(start_index + 1, action.dest, TRUE,
               get_value(action.type, t.explicit_arg), ns)
    ELSE store(start_index + 2, action.dest, next_is_A,
               get_value(action.type,
                         IF next_is_A THEN arg_strings[start_index + 1]
                         ELSE << >>), ns)

\* consume_optional at start_index, where the word or the rest of it is t;
\* a word that is no option of the parser is left over
consume_optional(parser, arg_strings, stop, start_index, t, ns) ==
    IF t.kind # "O"
    THEN parse_state(TRUE, start_index + 1, FALSE, positional_argument, ns)
    ELSE consume_action(arg_strings, start_index, t,
             action_of(parser, t.option_string),
             /\ start_index + 1 < stop
             /\ parse_optional(parser, arg_strings[start_index + 1]).kind = "A",
             /\ t.explicit_arg # << >>
             /\ << "-", t.explicit_arg[1] >> \in option_strings(parser),
             ns)

\* the loop of _parse_known_args over the words before stop (the first "--",
\* which ends the options), from the state r on
RECURSIVE consume_optionals(_, _, _, _)
consume_optionals(parser, arg_strings, stop, r) ==
    IF ~r.ok THEN no_namespace
    ELSE IF r.index >= stop THEN [ok |-> TRUE, ns |-> r.ns]
    ELSE consume_optionals(parser, arg_strings, stop,
             consume_optional(parser, arg_strings, stop, r.index,
                 IF r.chained THEN r.tuple
                 ELSE parse_optional(parser, arg_strings[r.index]),
                 r.ns))

\* the index of the first "--" of the arguments, else one past their end
options_end(arg_strings) ==
    IF InList(<<"-", "-">>, arg_strings)
    THEN IndexOf(arg_strings, <<"-", "-">>)
    ELSE Len(arg_strings) + 1

\* the namespace r of the options seen, or none when a word before "--" was
\* ambiguous and when a required option was not seen
required_seen(parser, ambiguous, r) ==
    IF \/ ambiguous
       \/ ~r.ok
       \/ \E o \in parser : o.required /\ o.dest \notin DOMAIN r.ns
    THEN no_namespace
    ELSE r

\* parser.parse_known_args(arg_strings) of a parser of options: the namespace
\* of the options seen, or none when a word before "--" is ambiguous, when
\* an option lacks its argument or does not take it, and when a required
\* option was not seen.  Words that belong to no option are left over.
parse_known_options(parser, arg_strings, stop) ==
    required_seen(parser,
        \E i \in 1..(stop - 1) :
            parse_optional(parser, arg_strings[i]).kind = "ambiguous",
        consume_optionals(parser, arg_strings, stop,
            parse_state(TRUE, 1, FALSE, positional_argument, << >>)))

\* "if ns_parser.help: ... return None"
unless_help(r) ==
    IF r.ok /\ "help" \notin DOMAIN r.ns THEN r ELSE no_namespace

\* parse_known_args_and_warn(parser, other_args, export_allowed): the parser
\* gets -h/--help and, when an export is allowed, --export with the formats
\* allowed; None comes back when the parse exits and when help was asked
parse_known_args_and_warn(parser, other_args, export_allowed) ==
    unless_help(parse_known_options(
        parser
        \cup { Option({ <<"-", "h">>, <<"-", "-", "h", "e", "l", "p">> }, "help", "store_true", FALSE) }
        \cup (IF export_allowed = "NO_EXPORT" THEN {}
              ELSE { Option({ <<"-", "-", "e", "x", "p", "o", "r", "t">> }, "export", export_allowed,
                            FALSE) }),
        other_args, options_end(other_args)))

\* the parser of load: -t/--ticker, required unless -h is among the words,
\* -s/--start, -i/--interval, --source and, in pred and qa, -e/--end and
\* -p/--prepost
load_parser(menu, other_args) ==
    { Option({ <<"-", "t">>, <<"-", "-", "t", "i", "c", "k", "e", "r">> }, "ticker", "str",
             ~InList(<<"-", "h">>, other_args)),
      Option({ <<"-", "s">>, <<"-", "-", "s", "t", "a", "r", "t">> }, "start", "valid_date", FALSE),
      Option({ <<"-", "i">>, <<"-", "-", "i", "n", "t", "e", "r", "v", "a", "l">> }, "interval", "int, INTERVALS", FALSE),
      Option({ <<"-", "-", "s", "o", "u", "r", "c", "e">> }, "source", "SOURCES", FALSE) }
    \cup (IF menu \in { "pred", "qa" }
          THEN { Option({ <<"-", "e">>, <<"-", "-", "e", "n", "d">> }, "end", "valid_date", FALSE),
                 Option({ <<"-", "p">>, <<"-", "-", "p", "r", "e", "p", "o", "s", "t">> }, "prepost", "store_true",
                        FALSE) }
          ELSE {})

\* the export_allowed that call_load passes
load_export_allowed(menu) ==
    CASE menu = "pred" -> "EXPORT_ONLY_FIGURES_ALLOWED"
      [] menu = "qa" -> "NO_EXPORT"
      [] OTHER -> "EXPORT_ONLY_RAW_DATA_ALLOWED"

\* The namespace of load, as far as call_load reads it: the ticker
\* (ticker_is_None when no -t/--ticker was seen, which the parser admits
\* when -h is among the words), the start and the interval, with their
\* defaults.
load_namespace(r) ==
    IF ~r.ok
    THEN [ok |-> FALSE, ticker |-> << >>, ticker_is_None |-> FALSE,
          start |-> << >>, interval |-> << >>]
    ELSE [ok |-> TRUE,
          ticker |-> IF "ticker" \in DOMAIN r.ns THEN r.ns["ticker"]
                     ELSE << >>,
          ticker_is_None |-> "ticker" \notin DOMAIN r.ns,
          start |-> IF "start" \in DOMAIN r.ns THEN r.ns["start"]
                    ELSE <<"a", " ", "y", "e", "a", "r", " ", "a", "g", "o">>,
          interval |-> IF "interval" \in DOMAIN r.ns THEN r.ns["interval"]
                       ELSE <<"1", "4", "4", "0">>]

\* ns_parser of call_load
parse_load(menu, args) ==
    load_namespace(parse_known_args_and_warn(load_parser(menu, args), args,
                                             load_export_allowed(menu)))

\* the ticker load stores: upper case, cut at the first "."
loaded_ticker(t) ==
    IF Contains(t, ".") THEN SplitOn(Upper(t), ".")[1] ELSE Upper(t)

\* call_load of fa after the parse, under @try_except, which takes the
\* TypeError of '"." in ns_parser.ticker' when the ticker is None
fa_load(ticker, ns_parser, out) ==
    IF ns_parser.ok /\ out = "ok" /\ ~ns_parser.ticker_is_None
    THEN [ticker |-> loaded_ticker(ns_parser.ticker), raised |-> "none"]
    ELSE [ticker |-> ticker, raised |-> "none"]

\* call_load of pred and qa after the parse, with no exception handler
pred_load(ticker, ns_parser, out) ==
    IF ~ns_parser.ok THEN [ticker |-> ticker, raised |-> "none"]
    ELSE IF out = "ok"
         THEN IF ns_parser.ticker_is_None
              THEN [ticker |-> ticker, raised |-> "Exception"]
              ELSE [ticker |-> loaded_ticker(ns_parser.ticker),
                    raised |-> "none"]
    ELSE IF out = "error" THEN [ticker |-> ticker, raised |-> "Exception"]
    ELSE IF out = "exit" THEN [ticker |-> ticker, raised |-> "SystemExit"]
    ELSE [ticker |-> ticker, raised |-> "none"]

\* fa: call_load
fa_call_load(ticker, other_args, out) ==
    fa_load(ticker, parse_load("fa", prepend_flag(other_args)), out)

\* pred: call_load
pred_call_load(ticker, other_args, out) ==
    pred_load(ticker, parse_load("pred", prepend_flag(other_args)), out)

\* qa: call_load, which reads as the one of pred
qa_call_load(ticker, other_args, out) ==
    pred_load(ticker, parse_load("qa", prepend_flag(other_args)), out)

\* the reload command of the stocks menu, as fa's load
stocks_call_load(ticker, other_args, out) ==
    fa_load(ticker, parse_load("stocks", prepend_flag(other_args)), out)

\* pred: rnn, lstm and conv1d catch Exception themselves, SystemExit passes
pred_call_nn(ticker, out) ==
    IF out = "exit" THEN [ticker |-> ticker, raised |-> "SystemExit"]
    ELSE [ticker |-> ticker, raised |-> "none"]

\* every other leaf command runs under @try_except and leaves the ticker alone
call_leaf(ticker, out) == [ticker |-> ticker, raised |-> "none"]

\* the handler of a leaf command of a menu
call_command(menu, cmd, ticker, other_args, out) ==
    IF cmd = w_load THEN
        CASE menu = "fa" -> fa_call_load(ticker, other_args, out)
          [] menu = "pred" -> pred_call_load(ticker, other_args, out)
          [] menu = "qa" -> qa_call_load(ticker, other_args, out)
          [] OTHER -> stocks_call_load(ticker, other_args, out)
    ELSE IF menu = "pred" /\ cmd \in { w_rnn, w_lstm, w_conv1d }
         THEN pred_call_nn(ticker, out)
    ELSE call_leaf(ticker, out)

(***************************************************************************)
(* pick in pred and qa: the target column.  The choices of its -t/--target *)
(* are the columns of the loaded stock; without the option the parse gives *)
(* target None, which the handler stores as it stores a column.            *)
(***************************************************************************)
w_AdjClose == <<"A", "d", "j", "C", "l", "o", "s", "e">>

w_Returns == <<"R", "e", "t", "u", "r", "n", "s">>

w_None == <<"N", "o", "n", "e">>

\* the parser of pick: -t/--target, one of the columns
pick_parser ==
    { Option({ <<"-", "t">>, <<"-", "-", "t", "a", "r", "g", "e", "t">> }, "target", "columns", FALSE) }

\* the export_allowed that call_pick passes
pick_export_allowed(menu) ==
    IF menu = "pred" THEN "EXPORT_ONLY_FIGURES_ALLOWED" ELSE "NO_EXPORT"

\* The namespace of pick: the target is None when no -t/--target was seen.
pick_namespace(r) ==
    IF ~r.ok THEN [ok |-> FALSE, target |-> << >>]
    ELSE [ok |-> TRUE,
          target |-> IF "target" \in DOMAIN r.ns THEN r.ns["target"]
                     ELSE w_None]

\* ns_parser of call_pick
parse_pick(menu, args) ==
    pick_namespace(parse_known_args_and_warn(pick_parser, args,
                                             pick_export_allowed(menu)))

\* "if ns_parser: self.target = ns_parser.target"
pick_target(target, ns_parser) ==
    IF ns_parser.ok THEN ns_parser.target ELSE target

\* call_pick
call_pick(menu, target, other_args) ==
    pick_target(target, parse_pick(menu, prepend_flag(other_args)))

(***************************************************************************)
(* Sub-menu commands: fmp in fa; fa, pred, qa in stocks; stocks at the     *)
(* root.                                                                   *)
(***************************************************************************)
CHOICES_MENUS(menu) ==
    CASE menu = "fa" -> fa_CHOICES_MENUS
      [] menu = "stocks" -> << w_fa, w_pred, w_qa >>
      [] menu = "terminal" -> << w_stocks >>
      [] OTHER -> << >>

\* the menu a sub-menu command enters
MenuOf(cmd) ==
    CASE cmd = w_fmp -> "fmp"
      [] cmd = w_fa -> "fa"
      [] cmd = w_pred -> "pred"
      [] cmd = w_qa -> "qa"
      [] cmd = w_stocks -> "stocks"

(***************************************************************************)
(* switch: process and dispatch one input line.  The result says how       *)
(* switch ended:                                                           *)
(*   "empty"      the line was empty, nothing is dispatched,               *)
(*   "handled"    a call_ method ran and returned,                         *)
(*   "silent"     the name has no call_ method, the default did nothing,   *)
(*   "call"       a sub-menu command: the child menu starts with queue,    *)
(*   "SystemExit" the menu parser or the handler raised SystemExit,        *)
(*   "Exception"  the handler let an Exception out.                        *)
(* queue is self.queue as switch leaves it: the segments of a path are     *)
(* inserted before the first segment is parsed and stay when it raises.    *)
(***************************************************************************)
\* first_action without "Absolute path is specified": the empty first
\* instruction is taken as it is
first_action_relative(an_input) ==
    IF ~Contains(an_input, "/") THEN an_input
    ELSE SplitOn(an_input, "/")[1]

\* "Navigation slash is being used": the instruction to execute now
first_action(an_input) ==
    LET actions == SplitOn(an_input, "/") IN
    IF ~Contains(an_input, "/") THEN an_input
    ELSE IF actions[1] = << >> THEN w_home
    ELSE actions[1]

\* "Add all instructions to the queue": each non-empty one, the last first,
\* is inserted at index 0
path_queue(an_input, queue) ==
    IF Contains(an_input, "/")
    THEN NonEmpty(Tail(SplitOn(an_input, "/"))) \o queue
    ELSE queue

\* call_cls clears the screen
call_cls(menu, queue) == queue

\* call_help that also forgets what is pending
call_help_clears(menu, queue) == << >>

\* call_help prints the help of the menu
call_help(menu, queue) == queue

\* returned_by with a handler that leaves an empty queue behind
returned_by_clears(queue, an_input, cmd, leaf) ==
    [result |-> IF leaf.raised = "none" THEN "handled" ELSE leaf.raised,
     queue |-> << >>, ticker |-> leaf.ticker, cmd |-> cmd, first |-> an_input]

\* how switch ends when the handler of a leaf command has run
returned_by(queue, an_input, cmd, leaf) ==
    [result |-> IF leaf.raised = "none" THEN "handled" ELSE leaf.raised,
     queue |-> queue, ticker |-> leaf.ticker, cmd |-> cmd, first |-> an_input]

\* the call through getattr(self, "call_" + known_args.cmd, default)
call_(menu, queue, ticker, an_input, cmd, other_args, out) ==
    IF ~HasHandler(menu, cmd)
    THEN [result |-> "silent", queue |-> queue, ticker |-> ticker,
          cmd |-> cmd, first |-> an_input]
    ELSE IF cmd = w_cls
    THEN [result |-> "handled", queue |-> call_cls(menu, queue),
          ticker |-> ticker, cmd |-> cmd, first |-> an_input]
    ELSE IF cmd = w_help
    THEN [result |-> "handled", queue |-> call_help(menu, queue),
          ticker |-> ticker, cmd |-> cmd, first |-> an_input]
    ELSE IF cmd = w_home
    THEN [result |-> "handled", queue |-> call_home(menu, queue),
          ticker |-> ticker, cmd |-> cmd, first |-> an_input]
    ELSE IF cmd = w_quit
    THEN [result |-> "handled", queue |-> call_quit(menu, queue),
          ticker |-> ticker, cmd |-> cmd, first |-> an_input]
    ELSE IF cmd = w_exit
    THEN [result |-> "handled", queue |-> call_exit(menu, queue),
          ticker |-> ticker, cmd |-> cmd, first |-> an_input]
    ELSE IF cmd = w_reset
    THEN [result |-> "handled", queue |-> call_reset(menu, queue, ticker),
          ticker |-> ticker, cmd |-> cmd, first |-> an_input]
    ELSE IF InList(cmd, CHOICES_MENUS(menu))
    THEN [result |-> "call", queue |-> queue, ticker |-> ticker,
          cmd |-> cmd, first |-> an_input]
    ELSE returned_by(queue, an_input, cmd,
                     call_command(menu, cmd, ticker, other_args, out))

\* "Redirect commands to their correct functions"
redirect(menu, queue, ticker, an_input, known, out) ==
    IF ~known.ok
    THEN [result |-> "SystemExit", queue |-> queue, ticker |-> ticker,
          cmd |-> known.cmd, first |-> an_input]
    ELSE call_(menu, queue, ticker, an_input, resolve_alias(known.cmd),
               known.other_args, out)

\* the parse of the instruction by the parser of the menu
parse_and_call(menu, queue, ticker, an_input, out) ==
    redirect(menu, queue, ticker, an_input,
             parse_known_args(SplitWords(an_input), CHOICES(menu)), out)

switch(menu, queue, ticker, an_input, out) ==
    IF an_input = << >>
    THEN [result |-> "empty", queue |-> queue, ticker |-> ticker,
          cmd |-> << >>, first |-> << >>]
    ELSE parse_and_call(menu, path_queue(an_input, queue), ticker,
                        first_action(an_input), out)

\* target_after with handlers that, pick apart, put the target column back to
\* the one of the constructor
target_after_default(menu, target, r) ==
    IF r.result = "handled" /\ menu \in { "pred", "qa" }
    THEN IF r.cmd = w_pick
         THEN call_pick(menu, target,
                        parse_known_args(SplitWords(r.first), CHOICES(menu)).other_args)
         ELSE IF menu = "pred" THEN w_AdjClose ELSE w_Returns
    ELSE target

\* self.target after switch: pick of pred and qa assigns it, nothing else does
target_after(menu, target, r) ==
    IF r.result = "handled" /\ r.cmd = w_pick /\ menu \in { "pred", "qa" }
    THEN call_pick(menu, target,
                   parse_known_args(SplitWords(r.first), CHOICES(menu)).other_args)
    ELSE target

(***************************************************************************)
(* The lines typed at the prompts and the queues the terminal is started   *)
(* with.                                                                   *)
(***************************************************************************)
InputLines ==
    { << >>,
      <<"s", "t", "o", "c", "k", "s">>, <<"f", "a">>, <<"f", "m", "p">>, <<"p", "r", "e", "d">>, <<"q", "a">>,
      <<"l", "o", "a", "d", " ", "A", "A", "P", "L">>,
      <<"h", "o", "m", "e">>, <<"e", "x", "i", "t">>, <<"r", "e", "s", "e", "t">>, <<"q">>, <<"h", "e", "l", "p">>,
      <<"c", "a", "s", "h">>, <<"r", "n", "n">>,
      <<"l", "a", "o", "d", " ", "A", "A", "P", "L">>,
      <<"h", "o", "m">>,
      <<"z", "z", "z">>,
      <<"c", "a", "s", "h", "/", "/", "i", "n", "c", "o", "m", "e", "/">>,
      <<"/", "s", "t", "o", "c", "k", "s", "/", "q", "a">>,
      <<"e", "x", "i", "t", "/", "c", "a", "s", "h">>,
      <<"r", "e", "s", "e", "t", "/", "c", "a", "s", "h">>,
      <<"z", "z", "z", "/", "c", "a", "s", "h">>,
      <<"l", "a", "o", "d", " ", "A", "A", "P", "L", "/", "c", "a", "s", "h">>,
      <<"?", "/", "c", "l", "s">>,
      <<"d", "c", "f">>,
      <<"p", "i", "c", "k", " ", "V", "o", "l", "u", "m", "e">>,
      <<"l", "o", "a", "d", " ", "-", "h">>,
      <<"p", "i", "c", "k", " ", "-", "h">>,
      <<".", ".", "/", "c", "a", "s", "h">> }

InitQueues ==
    { << >>,
      << <<"s", "t", "o", "c", "k", "s">>, <<"l", "o", "a", "d", " ", "t", "s", "l", "a", ".", "n", "s">>, <<"q", "a">> >>,
      << <<"s", "t", "o", "c", "k", "s", "/", "l", "o", "a", "d", " ", "A", "A", "P", "L", "/", "p", "r", "e", "d">>, <<"r", "n", "n">>, <<"h", "e", "l", "p", "/", "h", "o", "m", "e">> >>,
      << <<"s", "t", "o", "c", "k", "s", "/", "f", "a", "/", "f", "m", "p">>, <<"c", "a", "s", "h">>, <<"h", "o", "m", "e">> >> }

(***************************************************************************)
(* The recovery of the menu loops from SystemExit ("except SystemExit").   *)
(* Each gives the queue and an_input the handler leaves, how it ended      *)
(* ("replaced", "degenerate", "nomatch") and whether the "Replacing by"    *)
(* notice was printed.                                                     *)
(***************************************************************************)
\* the word the match is looked up for: the text before the first blank
first_word(an_input) ==
    IF Contains(an_input, " ") THEN SplitOn(an_input, " ")[1] ELSE an_input

\* candidate_input: the match followed by the text after the first blank
candidate_of(an_input, similar_cmd) ==
    IF Contains(an_input, " ")
    THEN similar_cmd[1] \o << " " >> \o JoinWith(Tail(SplitOn(an_input, " ")), " ")
    ELSE similar_cmd[1]

fa_except(an_input, queue) ==
    LET similar_cmd == get_close_matches(first_word(an_input), fa_CHOICES)
        candidate_input == candidate_of(an_input, similar_cmd)
    IN  IF similar_cmd # << >>
        THEN IF candidate_input = an_input
             THEN [queue |-> << >>, an_input |-> << >>, path |-> "degenerate",
                   notice |-> FALSE, candidate |-> candidate_input]
             ELSE [queue |-> << an_input >> \o queue, an_input |-> an_input,
                   path |-> "replaced", notice |-> TRUE,
                   candidate |-> candidate_input]
        ELSE [queue |-> << >>, an_input |-> << >>, path |-> "nomatch",
              notice |-> FALSE, candidate |-> << >>]

fmp_except(an_input, queue) ==
    LET similar_cmd == get_close_matches(first_word(an_input), fmp_CHOICES)
        candidate_input == candidate_of(an_input, similar_cmd)
    IN  IF similar_cmd # << >>
        THEN IF candidate_input = an_input
             THEN [queue |-> << >>, an_input |-> << >>, path |-> "degenerate",
                   notice |-> FALSE, candidate |-> candidate_input]
             ELSE [queue |-> << an_input >> \o queue, an_input |-> an_input,
                   path |-> "replaced", notice |-> TRUE,
                   candidate |-> candidate_input]
        ELSE [queue |-> << >>, an_input |-> << >>, path |-> "nomatch",
              notice |-> FALSE, candidate |-> << >>]

\* pred_except without "pred_controller.queue = []" where the corrected line
\* is the line itself
pred_except_keeps_queue(an_input, queue) ==
    LET similar_cmd == get_close_matches(first_word(an_input), pred_CHOICES)
        candidate_input == candidate_of(an_input, similar_cmd)
    IN  IF similar_cmd # << >>
        THEN IF candidate_input = an_input
             THEN [queue |-> queue, an_input |-> << >>, path |-> "degenerate",
                   notice |-> FALSE, candidate |-> candidate_input]
             ELSE [queue |-> << an_input >> \o queue, an_input |-> an_input,
                   path |-> "replaced", notice |-> TRUE,
                   candidate |-> candidate_input]
        ELSE [queue |-> << >>, an_input |-> << >>, path |-> "nomatch",
              notice |-> FALSE, candidate |-> << >>]

pred_except(an_input, queue) ==
    LET similar_cmd == get_close_matches(first_word(an_input), pred_CHOICES)
        candidate_input == candidate_of(an_input, similar_cmd)
    IN  IF similar_cmd # << >>
        THEN IF candidate_input = an_input
             THEN [queue |-> << >>, an_input |-> << >>, path |-> "degenerate",
                   notice |-> FALSE, candidate |-> candidate_input]
             ELSE [queue |-> << an_input >> \o queue, an_input |-> an_input,
                   path |-> "replaced", notice |-> TRUE,
                   candidate |-> candidate_input]
        ELSE [queue |-> << >>, an_input |-> << >>, path |-> "nomatch",
              notice |-> FALSE, candidate |-> << >>]

\* qa: the verbatim test is made only for a line with a blank, the corrected
\* line replaces an_input, and without a match the queue is left as it is
qa_except(an_input, queue) ==
    LET similar_cmd == get_close_matches(first_word(an_input), qa_CHOICES)
        candidate_input == candidate_of(an_input, similar_cmd)
    IN  IF similar_cmd # << >>
        THEN IF Contains(an_input, " ") /\ candidate_input = an_input
             THEN [queue |-> << >>, an_input |-> << >>, path |-> "degenerate",
                   notice |-> FALSE, candidate |-> candidate_input]
             ELSE [queue |-> << candidate_input >> \o queue,
                   an_input |-> candidate_input, path |-> "replaced",
                   notice |-> TRUE, candidate |-> candidate_input]
        ELSE [queue |-> queue, an_input |-> an_input, path |-> "nomatch",
              notice |-> FALSE, candidate |-> << >>]

\* The stocks menu and the root recover as step 7 of the dispatcher says:
\* the corrected line is put back when it differs from the line, otherwise the
\* line is dropped and the queue emptied.
upper_except(menu, an_input, queue) ==
    LET similar_cmd == get_close_matches(first_word(an_input), CHOICES(menu))
        candidate_input == candidate_of(an_input, similar_cmd)
    IN  IF similar_cmd # << >>
        THEN IF candidate_input = an_input
             THEN [queue |-> << >>, an_input |-> << >>, path |-> "degenerate",
                   notice |-> FALSE, candidate |-> candidate_input]
             ELSE [queue |-> << candidate_input >> \o queue,
                   an_input |-> candidate_input, path |-> "replaced",
                   notice |-> TRUE, candidate |-> candidate_input]
        ELSE [queue |-> << >>, an_input |-> << >>, path |-> "nomatch",
              notice |-> FALSE, candidate |-> << >>]

menu_except(menu, an_input, queue) ==
    CASE menu = "fa" -> fa_except(an_input, queue)
      [] menu = "fmp" -> fmp_except(an_input, queue)
      [] menu = "pred" -> pred_except(an_input, queue)
      [] menu = "qa" -> qa_except(an_input, queue)
      [] menu = "stocks" -> upper_except("stocks", an_input, queue)
      [] menu = "terminal" -> upper_except("terminal", an_input, queue)

ExitTokens == { w_q, w_dotdot, w_quit }

(***************************************************************************)
(* State.                                                                  *)
(*   stack    the menus on the call stack, the root first; the last one is *)
(*            the active dispatcher.  A frame holds the controller's queue *)
(*            and ticker and the loop's an_input.                          *)
(*   awaiting the active dispatcher is blocked in the interactive read     *)
(*   app      "running", "exited" (the root returned) or "crashed" (an     *)
(*            Exception left a menu function)                              *)
(*   returned the queue the root returned                                  *)
(*   last     the last step: a turn, the return of a menu ("exit") or the  *)
(*            start of an interactive read ("prompt")                      *)
(*            (out is what the collaborator of a leaf command did in it,   *)
(*            left is self.queue as switch left it, before any recovery)   *)
(*   log      the steps since the last interactive read                    *)
(*   notices  the "Replacing by" notices since the last interactive read   *)
(***************************************************************************)
VARIABLES stack, awaiting, app, returned, log, last, notices

vars == << stack, awaiting, app, returned, log, last, notices >>

Top == stack[Len(stack)]

\* default_target with a target column that stays what the last pick made it
default_target_picked(menu) == <<"V", "o", "l", "u", "m", "e">>

\* the target column a menu starts with: self.target = "AdjClose" in pred,
\* self.target = "Returns" in qa; the other menus have none
default_target(menu) ==
    CASE menu = "pred" -> w_AdjClose
      [] menu = "qa" -> w_Returns
      [] OTHER -> << >>

\* stock is the dataset of a menu: "loaded" with the columns a load brings
\* in, "empty" without them, "none" in a menu that keeps no dataset
Frame(menu, queue, an_input, ticker, suffix, stock) ==
    [menu |-> menu, queue |-> queue, an_input |-> an_input, ticker |-> ticker,
     suffix |-> suffix, stock |-> stock, target |-> default_target(menu)]

\* the constructors of pred and qa start with stock["Adj Close"], a KeyError
\* on a dataset without that column; fa and fmp take no dataset
Controller_raises(menu, stock) ==
    menu \in { "pred", "qa" } /\ stock # "loaded"

\* the constructor: "if queue: self.queue = queue else: self.queue = list()";
\* in fa, self.ticker = f"{ticker}.{suffix}" if suffix else ticker and
\* self.suffix = suffix; in pred and qa, self.stock = stock with the columns
\* added; the stocks menu starts with no suffix and an empty dataset
Controller(menu, ticker, suffix, stock, queue) ==
    Frame(menu, queue, HELP_ME,
          IF menu = "fa" /\ suffix # << >>
          THEN ticker \o << "." >> \o suffix
          ELSE ticker,
          IF menu = "fa" THEN suffix ELSE << >>,
          CASE menu \in { "pred", "qa" } -> stock
            [] menu = "stocks" -> "empty"
            [] OTHER -> "none")

NoStep ==
    [kind |-> "init", menu |-> "terminal", src |-> "none", line |-> << >>,
     result |-> "none", path |-> "none", cmd |-> << >>, first |-> << >>,
     pending |-> << >>, queue |-> << >>, candidate |-> << >>, depth |-> 1,
     ticker |-> << >>, out |-> "none", target |-> << >>,
     left |-> << >>]

Init ==
    /\ \E q \in InitQueues : stack = << Controller("terminal", << >>, << >>, "none", q) >>
    /\ awaiting = FALSE
    /\ app = "running"
    /\ returned = << >>
    /\ log = << >>
    /\ last = NoStep
    /\ notices = 0

Logged(l, e) == IF Len(l) < MaxLog THEN Append(l, e) ELSE l

Bump(n) == IF n < MaxCount THEN n + 1 ELSE n

\* SetTop with one queue shared by the menus on the stack: what the active
\* one does to its queue shows in its callers
SetTop_shared(f) ==
    [i \in 1..Len(stack) |->
        IF i = Len(stack) THEN f ELSE [stack[i] EXCEPT !.queue = f.queue]]

\* with the top frame replaced
SetTop(f) == [stack EXCEPT ![Len(stack)] = f]

(***************************************************************************)
(* The start of a turn with an exit token at the head of the queue: the    *)
(* menu function returns the rest of the queue.  The caller is the         *)
(* sub-menu command of the parent (self.queue = menu(...)), whose switch   *)
(* then returns; the root has no caller.                                   *)
(***************************************************************************)
\* exit_rest that returns the empty list whatever is pending
exit_rest_none(queue) == << >>

\* "if len(queue) > 1: return queue[1:]" and "return []"
exit_rest(queue) == IF Len(queue) > 1 THEN Tail(queue) ELSE << >>

MenuReturn ==
    /\ app = "running"
    /\ ~awaiting
    /\ Top.queue # << >>
    /\ Head(Top.queue) \in ExitTokens
    /\ LET rest == exit_rest(Top.queue) IN
       /\ IF Len(stack) = 1
          THEN /\ app' = "exited"
               /\ returned' = rest
               /\ stack' = SetTop([Top EXCEPT !.queue = rest])
          ELSE /\ stack' = [i \in 1..(Len(stack) - 1) |->
                              IF i = Len(stack) - 1
                              THEN [stack[i] EXCEPT !.queue = rest]
                              ELSE stack[i]]
               /\ UNCHANGED << app, returned >>
       /\ last' = [kind |-> "exit", menu |-> Top.menu, src |-> "queue",
                   line |-> Head(Top.queue), result |-> "return",
                   path |-> "none", cmd |-> << >>, first |-> << >>,
                   pending |-> Top.queue, queue |-> rest,
                   candidate |-> << >>, depth |-> Len(stack),
                   ticker |-> Top.ticker, out |-> "none",
                   target |-> Top.target, left |-> << >>]
       /\ log' = Logged(log, last')
       /\ UNCHANGED << awaiting, notices >>

(***************************************************************************)
(* The rest of a turn: switch on the line, and the recovery when it raises *)
(* SystemExit.  pending is the controller's queue when switch is called.   *)
(***************************************************************************)
NoRecovery ==
    [queue |-> << >>, an_input |-> << >>, path |-> "none", notice |-> FALSE,
     candidate |-> << >>]

\* Turned with an fmp controller that ignores the queue it is given and starts
\* with a list of its own
Turned_fmp_fresh(r, e, an_input, context) ==
    CASE r.result = "SystemExit" ->
            SetTop([Top EXCEPT !.queue = e.queue, !.an_input = e.an_input])
      [] r.result = "call" ->
            IF Controller_raises(MenuOf(r.cmd), Top.stock)
            THEN SetTop([Top EXCEPT !.queue = r.queue, !.an_input = an_input])
            ELSE Append(SetTop([Top EXCEPT !.queue = r.queue,
                                           !.an_input = an_input]),
                        Controller(MenuOf(r.cmd), Top.ticker, Top.suffix,
                                   Top.stock,
                                   IF MenuOf(r.cmd) = "fmp" THEN << >>
                                   ELSE r.queue))
      [] OTHER ->
            SetTop([Top EXCEPT !.queue = r.queue, !.an_input = an_input,
                               !.ticker = r.ticker,
                               !.suffix = context.suffix,
                               !.stock = context.stock,
                               !.target = target_after(Top.menu, @, r)])

\* the frames after the turn
\* The frames after the turn.  A sub-menu command constructs the child with
\* the context of its menu (fmp takes the ticker alone, fa the ticker and the
\* suffix, pred and qa the ticker and the dataset); when the constructor
\* raises, the child is not started and the handler of the stocks menu, the
\* only caller of pred and qa, takes the exception as the handler boundary
\* does, so its loop goes on with its queue.
Turned(r, e, an_input, context) ==
    CASE r.result = "SystemExit" ->
            SetTop([Top EXCEPT !.queue = e.queue, !.an_input = e.an_input])
      [] r.result = "call" ->
            IF Controller_raises(MenuOf(r.cmd), Top.stock)
            THEN SetTop([Top EXCEPT !.queue = r.queue, !.an_input = an_input])
            ELSE Append(SetTop([Top EXCEPT !.queue = r.queue,
                                           !.an_input = an_input]),
                        Controller(MenuOf(r.cmd), Top.ticker, Top.suffix,
                                   Top.stock, r.queue))
      [] OTHER ->
            SetTop([Top EXCEPT !.queue = r.queue, !.an_input = an_input,
                               !.ticker = r.ticker,
                               !.suffix = context.suffix,
                               !.stock = context.stock,
                               !.target = target_after(Top.menu, @, r)])

\* The suffix and the dataset the stocks menu holds after its load: when the
\* data came back the dataset is the loaded one and what stands after the
\* "." of the ticker is the exchange suffix; a ticker without "." leaves the
\* suffix, and a load that set no ticker leaves both.
stocks_load_context(suffix, stock, ns_parser, out) ==
    IF ns_parser.ok /\ out = "ok" /\ ~ns_parser.ticker_is_None
    THEN [suffix |-> IF Contains(ns_parser.ticker, ".")
                     THEN JoinWith(Tail(SplitOn(Upper(ns_parser.ticker), ".")), ".")
                     ELSE suffix,
          stock |-> "loaded"]
    ELSE [suffix |-> suffix, stock |-> stock]

\* the suffix and the dataset of the menu after switch: the load of the
\* stocks menu assigns them; load of fa leaves self.suffix alone, and the
\* dataset of pred and qa has its columns before and after their load
context_after(menu, suffix, stock, r, out) ==
    IF menu = "stocks" /\ r.result = "handled" /\ r.cmd = w_load
    THEN stocks_load_context(suffix, stock,
             parse_load("stocks", prepend_flag(
                 parse_known_args(SplitWords(r.first), CHOICES(menu)).other_args)),
             out)
    ELSE [suffix |-> suffix, stock |-> stock]

\* how the turn ended: a sub-menu command whose constructor raised has run and
\* returned
result_of(menu, stock, r) ==
    IF r.result = "call" /\ Controller_raises(MenuOf(r.cmd), stock)
    THEN "handled"
    ELSE r.result

Dispatch(src, an_input, pending, out) ==
    \E r \in { switch(Top.menu, pending, Top.ticker, an_input, out) } :
    \E context \in { context_after(Top.menu, Top.suffix, Top.stock, r, out) } :
    \E e \in { IF r.result = "SystemExit"
               THEN menu_except(Top.menu, an_input, r.queue)
               ELSE NoRecovery } :
    \E after \in { IF r.result = "SystemExit" THEN e.queue ELSE r.queue } :
        /\ Len(after) <= MaxQueue
        /\ last' = [kind |-> "turn", menu |-> Top.menu, src |-> src,
                    line |-> an_input,
                    result |-> result_of(Top.menu, Top.stock, r),
                    path |-> e.path,
                    cmd |-> r.cmd, first |-> r.first, pending |-> pending,
                    queue |-> after, candidate |-> e.candidate,
                    depth |-> Len(stack), ticker |-> Top.ticker, out |-> out,
                    target |-> Top.target, left |-> r.queue]
        /\ log' = Logged(log, last')
        /\ stack' = Turned(r, e, an_input, context)
        /\ notices' = IF e.notice THEN Bump(notices) ELSE notices
        /\ app' = IF r.result = "Exception" THEN "crashed" ELSE app
        /\ awaiting' = FALSE
        /\ UNCHANGED returned

\* the outcomes the environment can choose for a line: those of a collaborator
\* when the getattr of switch called the handler of a leaf command of the
\* menu, else nothing to choose
IsLeafCall(menu, r) ==
    r.result = "handled" /\ InList(r.cmd, CHOICES_COMMANDS(menu))

OutcomesOf(menu, an_input) ==
    IF IsLeafCall(menu, switch(menu, << >>, << >>, an_input, "ok"))
    THEN Outcomes
    ELSE { "ok" }

\* a turn that takes the line at the head of the queue
QueueTurn ==
    /\ app = "running"
    /\ ~awaiting
    /\ Top.queue # << >>
    /\ Head(Top.queue) \notin ExitTokens
    /\ \E out \in OutcomesOf(Top.menu, Head(Top.queue)) :
         Dispatch("queue", Head(Top.queue), Tail(Top.queue), out)

(***************************************************************************)
(* The queue is empty: the loop prints the help when an_input is still     *)
(* "HELP_ME" and blocks in the interactive read.  What the burst since the *)
(* previous read did is over here; an_input is assigned when the read      *)
(* returns, so the frame holds no line while the loop waits.               *)
(***************************************************************************)
\* Prompt without the test of the queue: the read is made whatever is pending
Prompt_with_pending ==
    /\ app = "running"
    /\ ~awaiting
    /\ awaiting' = TRUE
    /\ stack' = SetTop([Top EXCEPT !.an_input = << >>])
    /\ log' = << >>
    /\ notices' = 0
    /\ last' = [kind |-> "prompt", menu |-> Top.menu, src |-> "none",
                line |-> << >>,
                result |-> IF Top.an_input = HELP_ME THEN "help" ELSE "quiet",
                path |-> "none", cmd |-> << >>, first |-> << >>,
                pending |-> << >>, queue |-> << >>, candidate |-> << >>,
                depth |-> Len(stack), ticker |-> Top.ticker, out |-> "none",
                target |-> Top.target, left |-> << >>]
    /\ UNCHANGED << app, returned >>

Prompt ==
    /\ app = "running"
    /\ ~awaiting
    /\ Top.queue = << >>
    /\ awaiting' = TRUE
    /\ stack' = SetTop([Top EXCEPT !.an_input = << >>])
    /\ log' = << >>
    /\ notices' = 0
    /\ last' = [kind |-> "prompt", menu |-> Top.menu, src |-> "none",
                line |-> << >>,
                result |-> IF Top.an_input = HELP_ME THEN "help" ELSE "quiet",
                path |-> "none", cmd |-> << >>, first |-> << >>,
                pending |-> << >>, queue |-> << >>, candidate |-> << >>,
                depth |-> Len(stack), ticker |-> Top.ticker, out |-> "none",
                target |-> Top.target, left |-> << >>]
    /\ UNCHANGED << app, returned >>

\* the read returns the line the user typed, and the turn goes on with it
InputTurn ==
    /\ app = "running"
    /\ awaiting
    /\ \E an_input \in InputLines :
         \E out \in OutcomesOf(Top.menu, an_input) :
            Dispatch("input", an_input, << >>, out)

Next == MenuReturn \/ QueueTurn \/ Prompt \/ InputTurn

Spec == Init /\ [][Next]_vars

(***************************************************************************)
(* The claims.  They read the last step (last) and what the loops did      *)
(* since the last interactive read (log).                                  *)
(***************************************************************************)
\* the menus of the source; the stocks menu and the root stand above them
SubMenus == { "fa", "fmp", "pred", "qa" }

\* C1: in fa, fmp, pred and qa, when the name of a dispatched line is not a
\* legal name, a legal name clears the 0.7 cutoff and the corrected line
\* (that name, then the tail of the line) differs from the line, the corrected
\* line is at the front of the queue after the turn, so it is dispatched next,
\* and the "Replacing by" notice has been printed once.
C1_CorrectedLineReenqueued ==
    (last.kind = "turn" /\ last.menu \in SubMenus /\ last.path = "replaced")
        => /\ Top.queue # << >>
           /\ Head(Top.queue) = last.candidate
           /\ notices = 1

\* C2: in every menu, when the dispatch of a line raised SystemExit and the
\* corrected line is the line itself, with or without a tail, nothing is put
\* back, the queue is empty, and the next step is the interactive read: the
\* line is not dispatched again.
C2_DegenerateMatchStops ==
    [][ (last.kind = "turn" /\ last.path = "degenerate")
            => /\ Top.queue = << >>
               /\ awaiting'
               /\ last'.kind = "prompt"
               /\ Len(stack') = Len(stack) ]_vars

C2_Witness ==
    /\ last.kind = "turn"
    /\ last.path = "degenerate"
    /\ last.result = "SystemExit"
    /\ last.candidate = last.line
    /\ last.pending # << >>
    /\ Top.queue = << >>

\* C3: in fa, fmp, pred and qa, when a dispatched line is not recognized and
\* no legal name clears the cutoff, the line is dropped and the queue is
\* empty at the start of the next turn.
C3_NoMatchEmptiesQueue ==
    (last.kind = "turn" /\ last.menu \in SubMenus /\ last.path = "nomatch")
        => Top.queue = << >>

\* C4: at the start of a turn with q, .. or quit at the head of the queue the
\* menu function returns at once, nothing is dispatched, and what it returns
\* is the queue without that head: the caller goes on with it, the root ends
\* the application with it.
C4_ExitTokenReturnsRest ==
    [][ (app = "running" /\ ~awaiting /\ Top.queue # << >>
            /\ Head(Top.queue) \in ExitTokens)
            => /\ last'.kind = "exit"
               /\ notices' = notices
               /\ IF Len(stack) = 1
                  THEN app' = "exited" /\ returned' = Tail(Top.queue)
                  ELSE /\ app' = "running"
                       /\ Len(stack') = Len(stack) - 1
                       /\ Top'.queue = Tail(Top.queue)
                       /\ Top'.menu = stack[Len(stack) - 1].menu
                       /\ Top'.ticker = stack[Len(stack) - 1].ticker ]_vars

C4_Witness ==
    /\ last.kind = "exit"
    /\ last.menu \in SubMenus
    /\ Len(last.pending) > 2
    /\ last.queue = Tail(last.pending)
    /\ Top.queue = last.queue


\* the steps of log that dispatched a line taken from the queue
FromQueue(steps) == SelectSeq(steps, LAMBDA e : e.kind = "turn" /\ e.src = "queue")

\* the non-empty segments after the first one
Segments(line) == NonEmpty(Tail(SplitOn(line, "/")))

\* n exit tokens as the handlers write them
Quits(n) == [i \in 1..n |-> w_quit]

\* log is complete: no step was left out
Complete == Len(log) < MaxLog

\* C5: for a line s1/s2/.../sn with s1 not empty, typed in fa, fmp, pred or
\* qa: s1 is dispatched in this turn, and the instructions the menu then takes
\* from the queue are s2, ..., sn without the empty ones, in the order written.
C5_SegmentsRunInOrder ==
    (/\ log # << >>
     /\ log[1].kind = "turn" /\ log[1].src = "input"
     /\ log[1].menu \in SubMenus
     /\ Contains(log[1].line, "/")
     /\ SplitOn(log[1].line, "/")[1] # << >>)
        => /\ log[1].first = SplitOn(log[1].line, "/")[1]
           /\ \A k \in 2..Len(log) :
                (/\ k - 1 <= Len(Segments(log[1].line))
                 /\ \A j \in 2..k : /\ log[j].kind = "turn"
                                    /\ log[j].menu = log[1].menu)
                    => log[k].first = Segments(log[1].line)[k - 1]

\* C6: for a line with an empty first segment, typed in fa, fmp, pred or qa:
\* the command dispatched in this turn is home; the menus down to the root
\* return before anything else is dispatched; the root then holds the
\* remaining non-empty segments in the order written, and they are dispatched
\* in that order, the first of them by the root.
C6_AbsolutePathGoesHome ==
    (/\ log # << >>
     /\ log[1].kind = "turn" /\ log[1].src = "input"
     /\ log[1].menu \in SubMenus
     /\ Contains(log[1].line, "/")
     /\ SplitOn(log[1].line, "/")[1] = << >>)
        => /\ log[1].first = w_home
           /\ log[1].cmd = w_home
           /\ log[1].result = "handled"
           /\ \A j \in 2..Len(log) :
                j <= log[1].depth => log[j].kind = "exit"
           /\ \A k \in 1..Len(FromQueue(log)) :
                k <= Len(Segments(log[1].line))
                    => FromQueue(log)[k].line = Segments(log[1].line)[k]
           /\ FromQueue(log) # << >> => FromQueue(log)[1].menu = "terminal"
           /\ (Complete /\ Len(log) = log[1].depth)
                => /\ Len(stack) = 1 /\ Top.menu = "terminal"
                   /\ Top.queue = Segments(log[1].line)
                   /\ app = "running"

C6_Witness ==
    /\ log # << >>
    /\ log[1].kind = "turn" /\ log[1].src = "input"
    /\ log[1].menu = "fmp"
    /\ SplitOn(log[1].line, "/")[1] = << >>
    /\ Len(Segments(log[1].line)) = 2
    /\ Len(FromQueue(log)) = 2
    /\ FromQueue(log)[1].menu = "terminal"
    /\ FromQueue(log)[2].menu = "stocks"
    /\ FromQueue(log)[2].line = w_qa
    /\ Top.queue = << >>
    /\ Top.menu = "stocks"


\* a turn whose handler was the universal command cmd of a menu of the source
Ran(e, cmd) ==
    /\ e.kind = "turn"
    /\ e.menu \in SubMenus
    /\ e.result = "handled"
    /\ e.cmd = cmd

\* the queue without its first n lines
Drop(queue, n) == SubSeq(queue, n + 1, Len(queue))

\* C7: home in fa, pred or qa puts exactly two exit tokens at the front of
\* the queue; when the line was typed and names nothing else, the menu
\* returns, then the stocks menu returns, and the root is the active
\* dispatcher with an empty queue.
C7_HomeUnwindsTwoLevels ==
    /\ (Ran(last, w_home) /\ last.menu # "fmp")
          => /\ last.queue = Quits(2) \o path_queue(last.line, last.pending)
             /\ Top.queue = last.queue
    /\ (/\ log # << >>
        /\ Ran(log[1], w_home) /\ log[1].menu # "fmp"
        /\ log[1].src = "input"
        /\ ~Contains(log[1].line, "/"))
          => /\ Len(log) <= 3
             /\ Len(log) >= 2 =>
                  /\ log[2].kind = "exit" /\ log[2].menu = log[1].menu
                  /\ log[2].queue = Quits(1)
             /\ Len(log) = 2 => Top.menu = "stocks"
             /\ Len(log) = 3 =>
                  /\ log[3].kind = "exit" /\ log[3].menu = "stocks"
                  /\ log[3].queue = << >>
                  /\ Len(stack) = 1 /\ Top.menu = "terminal"
                  /\ Top.queue = << >>
                  /\ app = "running"

C7_Witness ==
    /\ Len(log) = 3
    /\ Ran(log[1], w_home) /\ log[1].menu = "qa" /\ log[1].src = "input"
    /\ log[1].queue = Quits(2)
    /\ last.kind = "exit" /\ last.menu = "stocks"
    /\ Top.menu = "terminal" /\ Top.queue = << >>

\* C8: home in fmp puts three exit tokens at the front of the queue; the
\* next three steps are the returns of fmp, fa and the stocks menu, each
\* taking one token and handing the rest to its caller, with no read and no
\* dispatch between them; the root then holds exactly the lines that were
\* behind the tokens, those pending before home.
C8_HomeInFmpUnwindsToRoot ==
    /\ (Ran(last, w_home) /\ last.menu = "fmp")
          => /\ last.queue = Quits(3) \o path_queue(last.line, last.pending)
             /\ Top.queue = last.queue
    /\ \A i \in 1..Len(log) :
         (Ran(log[i], w_home) /\ log[i].menu = "fmp")
            => /\ \A j \in 1..3 :
                    i + j <= Len(log)
                        => /\ log[i + j].kind = "exit"
                           /\ log[i + j].menu = << "fmp", "fa", "stocks" >>[j]
                           /\ log[i + j].pending = Drop(log[i].queue, j - 1)
                           /\ log[i + j].queue = Drop(log[i].queue, j)
               /\ (Complete /\ Len(log) = i + 3)
                    => /\ Len(stack) = 1 /\ Top.menu = "terminal"
                       /\ Top.queue = Drop(log[i].queue, 3)
                       /\ app = "running"

C8_Witness ==
    /\ Len(log) = 4
    /\ Ran(log[1], w_home) /\ log[1].menu = "fmp"
    /\ Len(log[1].queue) = 5
    /\ last.kind = "exit" /\ last.menu = "stocks"
    /\ Top.menu = "terminal"
    /\ Top.queue = Drop(log[1].queue, 3)

\* C9: exit in fa, fmp, pred or qa puts as many exit tokens at the front of
\* the queue as there are dispatchers on the call stack, the root included
\* (three in fa, pred and qa, four in fmp); every step after it is the return
\* of a menu, and after the last one the application has exited with the
\* lines that were pending returned, none of them dispatched.
C9_ExitUnwindsTheApplication ==
    /\ Ran(last, w_exit)
          => /\ last.depth = IF last.menu = "fmp" THEN 4 ELSE 3
             /\ last.queue = Quits(last.depth)
                                \o path_queue(last.line, last.pending)
             /\ Top.queue = last.queue
    /\ \A i \in 1..Len(log) :
         Ran(log[i], w_exit)
            => /\ \A j \in (i + 1)..Len(log) :
                    /\ log[j].kind = "exit"
                    /\ j - i <= log[i].depth
                    /\ log[j].depth = log[i].depth - (j - i) + 1
               /\ (Complete /\ Len(log) = i + log[i].depth)
                    => /\ app = "exited"
                       /\ returned = Drop(log[i].queue, log[i].depth)
               /\ (Complete /\ Len(log) < i + log[i].depth)
                    => /\ app = "running"
                       /\ Head(Top.queue) \in ExitTokens

C9_Witness ==
    /\ app = "exited"
    /\ Len(log) = 4
    /\ Ran(log[1], w_exit) /\ log[1].menu = "fa"
    /\ returned # << >>
    /\ returned = Drop(log[1].queue, 3)


\* the commands that lead from the root back into a menu
MenuPath(menu) ==
    CASE menu = "fa" -> << w_fa >>
      [] menu = "fmp" -> << w_fa, w_fmp >>
      [] menu = "pred" -> << w_pred >>
      [] menu = "qa" -> << w_qa >>

\* the lines reset is said to write in a menu whose ticker is T
Replay(menu, T) ==
    Quits(Len(MenuPath(menu)) + 1)
        \o << w_reset, w_stocks >>
        \o (IF T = << >> THEN << >> ELSE << w_load \o << " " >> \o T >>)
        \o MenuPath(menu)

\* reset wrote its lines and touched nothing else, and each step that follows
\* takes the next of them
ResetReplays ==
    /\ Ran(last, w_reset)
          => /\ last.queue = Replay(last.menu, last.ticker)
                                \o path_queue(last.line, last.pending)
             /\ Top.queue = last.queue
             /\ Top.menu = last.menu
             /\ Top.ticker = last.ticker
             /\ Len(stack) = last.depth
    /\ \A i \in 1..Len(log) :
         Ran(log[i], w_reset)
            => \A j \in 1..Len(Replay(log[i].menu, log[i].ticker)) :
                  i + j <= Len(log)
                      => /\ log[i + j].line = Replay(log[i].menu, log[i].ticker)[j]
                         /\ log[i + j].kind =
                              IF j <= Len(MenuPath(log[i].menu)) + 1
                              THEN "exit" ELSE "turn"

\* the replay of the reset at log[i] is over
Replayed(i) ==
    /\ Ran(log[i], w_reset)
    /\ Complete
    /\ Len(log) = i + Len(Replay(log[i].menu, log[i].ticker))

\* the menu of the reset at log[i] is the active one again, at its depth, with
\* the lines that were pending
ReEntered(i) ==
    /\ app = "running"
    /\ Top.menu = log[i].menu
    /\ Len(stack) = log[i].depth
    /\ Top.queue = Drop(log[i].queue, Len(Replay(log[i].menu, log[i].ticker)))

\* the stocks menu, entered anew by the replay, holds the dataset its load
\* brought in
Reloaded ==
    /\ Len(stack) >= 2
    /\ stack[2].menu = "stocks"
    /\ stack[2].stock = "loaded"

\* the step of the replay of the reset at log[i] that ran "load T"
ReloadStep(i) == log[i + Len(MenuPath(log[i].menu)) + 4]

Failed(e) ==
    /\ e.kind = "turn"
    /\ InList(e.cmd, CHOICES_COMMANDS(e.menu))
    /\ e.result \in { "handled", "Exception", "SystemExit" }
    /\ e.out \in { "error", "exit" }

\* C11: for every leaf command of every menu, load in pred and qa included,
\* what its collaborator or its argument parsing raises is caught inside the
\* handler: the handler returns, the menu loop has not ended and the
\* dispatcher goes on to its next turn.
C11_HandlerFailureContained ==
    Failed(last) => /\ last.result = "handled"
                    /\ app = "running"
                    /\ Len(stack) = last.depth

\* C12: when the handler of a leaf command fails on a line taken from the
\* queue with lines pending behind it, the menu goes on with exactly those
\* lines (after the path segments of the line itself, if it has any), in the
\* same menu with the same ticker; a typed line that fails leaves the same,
\* so the two sources do not differ.
C12_FailureKeepsPendingLines ==
    Failed(last) => /\ app = "running"
                    /\ Len(stack) = last.depth
                    /\ Top.menu = last.menu
                    /\ Top.ticker = last.ticker
                    /\ Top.queue = path_queue(last.line, last.pending)

\* a turn that took an error path: the parser of the menu rejected the line,
\* or the handler of a leaf command failed
ErrorPath(e) ==
    e.kind = "turn" /\ (e.result \in { "SystemExit", "Exception" } \/ Failed(e))

\* C13: after a turn on an error path the queue is the queue as it was before
\* the line was dispatched, or that queue with the one corrected line in front
\* of it: no pending line is dropped and no path segment of the line is left
\* behind or queued twice.
C13_ErrorPathsKeepTheQueue ==
    ErrorPath(last)
        => \/ last.queue = last.pending
           \/ /\ last.path = "replaced"
              /\ last.queue = << last.candidate >> \o last.pending

\* C14: a menu function ends (its frame leaves the stack, or the application
\* stops) only in a step that starts a turn with q, .. or quit at the head of
\* the queue; no turn on a line, whatever the line or its handler does, ends
\* it.
C14_ExitOnlyThroughExitToken ==
    [][ (Len(stack') < Len(stack) \/ app' # "running")
            => /\ Top.queue # << >>
               /\ Head(Top.queue) \in ExitTokens
               /\ last'.kind = "exit" ]_vars

\* C15: when fa dispatches fmp, the fmp menu starts with the queue fa holds at
\* that moment (the lines pending behind the command, after the path segments
\* of the line); when fmp returns, fa's queue is what fmp returned, the rest
\* of fmp's queue behind the exit token; and fa goes on at the start of its
\* loop: with an exit token at the head of that queue its next step is its own
\* return, with no read and no dispatch.
C15_QueueHandedToFmpAndBack ==
    /\ [](/\ (last.kind = "turn" /\ last.menu = "fa" /\ last.result = "call")
                => /\ Len(stack) = last.depth + 1
                   /\ Top.menu = "fmp"
                   /\ Top.queue = path_queue(last.line, last.pending)
                   /\ Top.an_input = HELP_ME
          /\ (last.kind = "exit" /\ last.menu = "fmp")
                => /\ Len(stack) = last.depth - 1
                   /\ Top.menu = "fa"
                   /\ Top.queue = last.queue
                   /\ last.queue = exit_rest(last.pending)
                   /\ ~awaiting)
    /\ [][ (/\ last.kind = "exit" /\ last.menu = "fmp"
            /\ Top.queue # << >> /\ Head(Top.queue) \in ExitTokens)
              => /\ last'.kind = "exit"
                 /\ last'.menu = "fa"
                 /\ last'.queue = exit_rest(Top.queue) ]_vars

\* fmp, entered from fa with lines pending, has returned to fa with an exit
\* token at the head of what it hands back
C15_Witness ==
    /\ last.kind = "exit" /\ last.menu = "fmp"
    /\ Top.menu = "fa"
    /\ Top.queue # << >> /\ Head(Top.queue) \in ExitTokens
    /\ \E i \in 1..Len(log) :
         /\ log[i].kind = "turn" /\ log[i].menu = "fa" /\ log[i].result = "call"
         /\ log[i].queue # << >>

\* a line the parser of the menu accepts, with no path in it, whose handler
\* puts nothing on the queue
Recognized(menu, line) ==
    /\ line # << >>
    /\ ~Contains(line, "/")
    /\ parse_known_args(SplitWords(line), CHOICES(menu)).ok
    /\ resolve_alias(parse_known_args(SplitWords(line), CHOICES(menu)).cmd)
          \notin { w_home, w_quit, w_exit, w_reset }

\* C16: the pending lines run in queue order from the front: with a
\* recognized line whose handler enqueues nothing at the head of the queue,
\* the next step dispatches that line and no other, takes it off the queue and
\* leaves the lines behind it as the queue, so that they follow in order, each
\* once.
C16_QueueRunsInOrder ==
    [][ (/\ ~awaiting
         /\ Top.queue # << >>
         /\ Recognized(Top.menu, Head(Top.queue)))
            => /\ last'.kind = "turn"
               /\ last'.src = "queue"
               /\ last'.menu = Top.menu
               /\ last'.line = Head(Top.queue)
               /\ Top'.queue = Tail(Top.queue)
               /\ app' = "running" ]_vars

\* C17: the line of a turn has one source: it is the head of the queue
\* whenever the queue holds a line, and a line read from the user only when
\* the queue is empty; the loop never waits in the read while a line is
\* pending.
C17_OneSourcePerTurn ==
    /\ [](awaiting => Top.queue = << >>)
    /\ [][ last'.kind = "turn"
              => /\ last'.src \in { "queue", "input" }
                 /\ (last'.src = "queue") <=> (Top.queue # << >>)
                 /\ (last'.src = "queue")
                       => /\ ~awaiting
                          /\ last'.line = Head(Top.queue)
                          /\ last'.pending = Tail(Top.queue)
                 /\ (last'.src = "input") => awaiting ]_vars
    /\ [][ last'.kind = "prompt" => Top.queue = << >> ]_vars

\* a burst that began with a typed line goes on with a line from the queue
\* while more lines are pending
C17_Witness ==
    /\ Len(log) >= 2
    /\ log[1].kind = "turn" /\ log[1].src = "input"
    /\ last.kind = "turn" /\ last.src = "queue"
    /\ last.menu \in SubMenus
    /\ Top.queue # << >>
    /\ ~awaiting

\* C18: in every menu a turn that dispatches cls or help, under its own name
\* or as ? or h, leaves the queue as it was when the handler was called (the
\* lines pending, after the path segments of the line): nothing is added,
\* taken or reordered, and the same menu goes on.
C18_ClsAndHelpKeepTheQueue ==
    (last.kind = "turn" /\ last.cmd \in { w_cls, w_help })
        => /\ last.result = "handled"
           /\ last.queue = path_queue(last.line, last.pending)
           /\ Top.queue = last.queue
           /\ Top.menu = last.menu
           /\ Len(stack) = last.depth
           /\ app = "running"

\* help, called by its alias ?, has run in a menu of the source with a line
\* pending
C18_Witness ==
    /\ last.kind = "turn"
    /\ last.menu \in SubMenus
    /\ last.first = w_qmark
    /\ last.cmd = w_help
    /\ last.result = "handled"
    /\ Top.queue = << w_cls >>

\* C19: one dispatcher is active at a time, the innermost on the call stack:
\* every read, dispatch and return is made by it, and the frames of its
\* callers do not change while it runs; the queue of a caller is written only
\* by the return of the menu it called.  So while fmp runs fa makes no step
\* and its queue stays as it was, and fa is the active one again only in the
\* step by which fmp returns.
C19_OneActiveDispatcher ==
    /\ []((Top.menu = "fmp") => (Len(stack) = 4 /\ stack[3].menu = "fa"))
    /\ [][ /\ last'.menu = Top.menu
           /\ last'.depth = Len(stack)
           /\ \A i \in 1..(Len(stack) - 1) :
                \/ i <= Len(stack') /\ stack'[i] = stack[i]
                \/ /\ i = Len(stack) - 1
                   /\ Len(stack') = i
                   /\ last'.kind = "exit"
                   /\ stack'[i] = [stack[i] EXCEPT !.queue = exit_rest(Top.queue)]
           /\ (Top.menu = "fmp" /\ Top'.menu # "fmp")
                 => /\ last'.kind = "exit"
                    /\ Top'.menu = "fa"
                    /\ Len(stack') = 3 ]_vars

\* fmp has taken lines from its queue while fa, which called it, still holds
\* the queue as it was at the call
C19_Witness ==
    /\ Top.menu = "fmp"
    /\ last.kind = "turn" /\ last.menu = "fmp" /\ last.src = "queue"
    /\ Len(stack) = 4
    /\ stack[3].menu = "fa"
    /\ Len(stack[3].queue) = 2
    /\ Top.queue = Tail(stack[3].queue)

\* C20: in every menu, a line whose command name is not a legal name of the
\* menu runs no handler and is not passed over in silence: the parser of the
\* menu rejects it, the loop reports it and then puts a correction back or
\* drops it; the menu, its ticker and the call stack stay as they were.  So
\* it is for dcf in fa, although the controller has a call_dcf method.
C20_IllegalNameIsUnrecognized ==
    (/\ last.kind = "turn"
     /\ last.first # << >>
     /\ ~InList(last.cmd, CHOICES(last.menu)))
        => /\ last.result = "SystemExit"
           /\ last.path \in { "replaced", "nomatch" }
           /\ Len(stack) = last.depth
           /\ Top.menu = last.menu
           /\ Top.ticker = last.ticker
           /\ app = "running"

\* dcf has been typed in fa, which has a call_dcf method but no dcf among its
\* legal names
C20_Witness ==
    /\ last.kind = "turn"
    /\ last.menu = "fa"
    /\ last.first = <<"d", "c", "f">>
    /\ HasHandler("fa", last.first)
    /\ ~InList(last.first, fa_CHOICES)
    /\ last.result = "SystemExit"
    /\ last.path = "nomatch"


(***************************************************************************)
(* The argument tokens of load and pick.  A second specification applies   *)
(* what the handlers do to other_args before the parse to every list of up *)
(* to MaxArgs tokens; it keeps the list and the result in last and leaves  *)
(* the menus out (the stack is empty).                                     *)
(***************************************************************************)
MaxArgs == 3

ArgTokens ==
    { <<"-", "t">>, <<"-", "-", "t", "i", "c", "k", "e", "r">>, <<"-", "h">>, <<"-", "s">>, <<"A", "A", "P", "L">> }

ArgLists ==
    UNION { [1..n -> ArgTokens] : n \in 0..MaxArgs }

InitArgs ==
    /\ stack = << >>
    /\ awaiting = FALSE
    /\ app = "running"
    /\ returned = << >>
    /\ log = << >>
    /\ notices = 0
    /\ \E a \in ArgLists :
         last = [kind |-> "args", other_args |-> a, passed |-> << >>,
                 ns_parser |-> parse_load("fa", << >>)]

\* call_load up to the parse: the -t of 'load BB', then parse_known_args_and_warn
Prepend ==
    /\ last.kind = "args"
    /\ last' = [kind |-> "parsed", other_args |-> last.other_args,
                passed |-> prepend_flag(last.other_args),
                ns_parser |-> parse_load("fa", prepend_flag(last.other_args))]
    /\ UNCHANGED << stack, awaiting, app, returned, log, notices >>

NextArgs == Prepend

SpecArgs == InitArgs /\ [][NextArgs]_vars

\* the tokens that introduce the primary parameter of load
TickerFlags == { <<"-", "t">>, <<"-", "-", "t", "i", "c", "k", "e", "r">> }

\* C21: load and pick put -t in front of their argument tokens exactly when
\* the list is not empty, holds no help request and does not begin with the
\* flag of the primary parameter; otherwise the parser gets the list as it
\* is.
C21_DefaultFlagPrepended ==
    (last.kind = "parsed")
        => last.passed =
              IF /\ last.other_args # << >>
                 /\ ~InList(<<"-", "h">>, last.other_args)
                 /\ Head(last.other_args) \notin TickerFlags
              THEN << <<"-", "t">> >> \o last.other_args
              ELSE last.other_args

\* the argument tokens of the command of a turn
OtherArgs(e) ==
    parse_known_args(SplitWords(e.first), CHOICES(e.menu)).other_args

\* a turn on load or pick whose arguments gave no namespace: they did not
\* parse, or they asked for help
Rejected(e) ==
    \/ e.cmd = w_load /\ ~parse_load(e.menu, prepend_flag(OtherArgs(e))).ok
    \/ /\ e.cmd = w_pick /\ e.menu \in { "pred", "qa" }
       /\ ~parse_pick(e.menu, prepend_flag(OtherArgs(e))).ok

\* C22: the handler of a leaf command leaves the queue as it found it (the
\* lines pending, after the path segments of the line), whether its arguments
\* parse, do not parse or ask for help; when they do not parse or ask for
\* help, the handler returns without calling its collaborator, so whatever
\* the collaborator would have done nothing is raised and the ticker and the
\* target column stay as they were.
C22_LeafHandlersKeepTheQueue ==
    (last.kind = "turn" /\ InList(last.cmd, CHOICES_COMMANDS(last.menu)))
        => /\ last.left = path_queue(last.line, last.pending)
           /\ Rejected(last)
                => /\ last.result = "handled"
                   /\ last.queue = last.left
                   /\ Top.queue = last.left
                   /\ Top.ticker = last.ticker
                   /\ Top.target = last.target
                   /\ app = "running"

\* load -h has run in pred, where load has no exception handler, with a
\* collaborator that would have failed
C22_Witness ==
    /\ last.kind = "turn"
    /\ last.menu = "pred"
    /\ last.cmd = w_load
    /\ Rejected(last)
    /\ last.out = "error"
    /\ last.result = "handled"

\* the menu that is active was entered by the call logged at i, and no menu
\* has returned to it or from it since: it is still in that entry, and it has
\* made no read in it, the log being the steps since the last read
EnteredAt(i) ==
    /\ log[i].kind = "turn"
    /\ log[i].result = "call"
    /\ log[i].depth = Len(stack) - 1
    /\ \A j \in (i + 1)..Len(log) :
         /\ log[j].depth = Len(stack)
         /\ log[j].kind = "turn"
         /\ log[j].result # "call"

\* C23: every entry into fa, fmp, pred or qa shows the help once, before the
\* first read of the entry, whether the menu was entered with an empty queue
\* or with lines pending; no later read of the entry shows it again.
C23_HelpOncePerEntry ==
    [][ (last'.kind = "prompt" /\ Top.menu \in SubMenus)
            => (last'.result = "help")
                  <=> (\E i \in 1..Len(log) : EnteredAt(i)) ]_vars


(***************************************************************************)
(* The names of the menus.  A third specification takes every legal name   *)
(* of fa, fmp, pred and qa through the redirection of switch, MaxResolve   *)
(* times over; last holds the name and what it has become.                 *)
(***************************************************************************)
MaxResolve == 2

InitAlias ==
    /\ stack = << >>
    /\ awaiting = FALSE
    /\ app = "running"
    /\ returned = << >>
    /\ log = << >>
    /\ notices = 0
    /\ \E menu \in SubMenus :
         \E i \in 1..Len(CHOICES(menu)) :
            last = [kind |-> "name", menu |-> menu, at |-> i,
                    name |-> CHOICES(menu)[i],
                    resolved |-> CHOICES(menu)[i], times |-> 0,
                    handler |-> FALSE]

\* "if known_args.cmd in ('..', 'q'): known_args.cmd = 'quit' ...", and the
\* lookup of the call_ method of the name
Resolve ==
    /\ last.kind = "name"
    /\ last.times < MaxResolve
    /\ last' = [last EXCEPT !.resolved = resolve_alias(@), !.times = @ + 1,
                            !.handler = HasHandler(last.menu, resolve_alias(last.resolved))]
    /\ UNCHANGED << stack, awaiting, app, returned, log, notices >>

NextAlias == Resolve

SpecAlias == InitAlias /\ [][NextAlias]_vars

\* C24: the redirection takes .. and q to quit, ? and h to help, r to reset
\* and every other legal name to itself; done twice it gives what it gives
\* done once; and what it gives is a legal name of the menu.
C24_AliasResolution ==
    (last.kind = "name" /\ last.times >= 1)
        => /\ last.resolved =
                 IF last.name \in { w_dotdot, w_q } THEN w_quit
                 ELSE IF last.name \in { w_qmark, w_h } THEN w_help
                 ELSE IF last.name = w_r THEN w_reset
                 ELSE last.name
           /\ last.resolved = resolve_alias(last.name)
           /\ InList(last.resolved, CHOICES(last.menu))

\* the alias .. of qa has gone through the redirection twice and is quit
C24_Witness ==
    /\ last.kind = "name"
    /\ last.menu = "qa"
    /\ last.name = w_dotdot
    /\ last.times = 2
    /\ last.resolved = w_quit

\* C25: in fa, fmp, pred and qa each name stands once in the list of legal
\* names of the menu: the entry taken from the list is the only one with its
\* name, at whatever point of the redirection; the list itself is the same in
\* every state.
C25_LegalNamesAreUnique ==
    (last.kind = "name")
        => /\ CHOICES(last.menu)[last.at] = last.name
           /\ \A j \in 1..Len(CHOICES(last.menu)) :
                 (CHOICES(last.menu)[j] = last.name) => (j = last.at)

\* C26: a menu of pred or qa that has just been entered holds the target
\* column of its constructor, AdjClose in pred and Returns in qa, whatever a
\* pick made of the target in an earlier entry, and has no line of its own
\* yet; the ticker is the one of the menu that entered it, which the queued
\* load line set there.
C26_ContextIsNewOnEntry ==
    (last.kind = "turn" /\ last.result = "call" /\ Top.menu \in { "pred", "qa" })
        => /\ Top.menu = "pred" => Top.target = <<"A", "d", "j", "C", "l", "o", "s", "e">>
           /\ Top.menu = "qa" => Top.target = <<"R", "e", "t", "u", "r", "n", "s">>
           /\ Top.an_input = HELP_ME
           /\ Top.ticker = stack[Len(stack) - 1].ticker

\* qa is entered again in the burst of a reset that left it with the target
\* a pick had made Volume
C26_Witness ==
    /\ last.kind = "turn" /\ last.result = "call" /\ Top.menu = "qa"
    /\ Top.target = w_Returns
    /\ Top.ticker # << >>
    /\ \E i \in 1..Len(log) :
          /\ log[i].kind = "turn" /\ log[i].menu = "qa"
          /\ log[i].cmd = <<"r", "e", "s", "e", "t">>
          /\ log[i].target = <<"V", "o", "l", "u", "m", "e">>



(***************************************************************************)
(* The due-diligence menu of the chat bot, DueDiligenceCommands            *)
(* .due_diligence.  A fourth specification follows one call of the command *)
(* from the menu message to its return; last holds the position in the     *)
(* coroutine, the reactions of the bot on the menu message, the messages   *)
(* sent to the channel, the commands invoked and the events the wait has   *)
(* passed over.  The calls of the chat library complete.                   *)
(***************************************************************************)
MaxEvents == 2

emoji_list == << "0", "1", "2", "3", "4", "5", "6" >>

\* the command of each branch of the if/elif chain, in the order of emoji_list
dd_commands ==
    << "analyst", "pt", "est", "sec", "supplier", "customer", "arktrades" >>

Users == { "author", "other" }

Emojis == { emoji_list[i] : i \in 1..Len(emoji_list) } \cup { "x" }

\* check that takes the reaction of any user
check_any_user(reaction, user) ==
    \E i \in 1..Len(emoji_list) : emoji_list[i] = reaction

\* "return user == ctx.message.author and str(reaction.emoji) in emoji_list"
check(reaction, user) ==
    user = "author" /\ \E i \in 1..Len(emoji_list) : emoji_list[i] = reaction

\* msg.add_reaction(emoji): the bot's reaction is on the message
add_reaction(reactions, emoji) == reactions \cup { emoji }

\* remove_reaction that leaves the reaction where it is
remove_reaction_keeps(reactions, emoji) == reactions

\* msg.remove_reaction(emoji, ctx.bot.user)
remove_reaction(reactions, emoji) == reactions \ { emoji }

\* the branch of the if/elif chain that the reaction selects
command_of(reaction) ==
    dd_commands[CHOOSE i \in 1..Len(emoji_list) : emoji_list[i] = reaction]

InitDD ==
    /\ stack = << >>
    /\ awaiting = FALSE
    /\ app = "running"
    /\ returned = << >>
    /\ log = << >>
    /\ notices = 0
    /\ \E ticker \in { << >>, <<"A", "A", "P", "L">> } :
         last = [kind |-> "dd", pc |-> "send", ticker |-> ticker, n |-> 0,
                 reactions |-> {}, sent |-> << >>, invoked |-> << >>,
                 events |-> 0, waited |-> "none", by |-> "none",
                 outcome |-> "none"]

DDKeeps == UNCHANGED << stack, awaiting, app, returned, log, notices >>

\* "msg = await ctx.send(embed=embed)": the menu is sent whatever the ticker,
\* the embed of the empty ticker being built and dropped
SendMenu ==
    /\ last.kind = "dd" /\ last.pc = "send"
    /\ last' = [last EXCEPT !.pc = "add", !.sent = Append(@, "menu")]
    /\ DDKeeps

\* one turn of "for emoji in emoji_list: await msg.add_reaction(emoji)"
AddReaction ==
    /\ last.kind = "dd" /\ last.pc = "add"
    /\ last' = [last EXCEPT
                  !.reactions = add_reaction(@, emoji_list[last.n + 1]),
                  !.n = IF last.n + 1 = Len(emoji_list) THEN 0 ELSE last.n + 1,
                  !.pc = IF last.n + 1 = Len(emoji_list) THEN "wait" ELSE "add"]
    /\ DDKeeps

\* a reaction that check refuses: wait_for goes on waiting
PassedOver ==
    /\ last.kind = "dd" /\ last.pc = "wait"
    /\ last.events < MaxEvents
    /\ \E user \in Users : \E reaction \in Emojis :
         /\ ~check(reaction, user)
         /\ last' = [last EXCEPT !.events = @ + 1]
    /\ DDKeeps

\* what the command of a branch can do: return, raise asyncio.TimeoutError,
\* raise another exception
CommandOutcomes == { "ok", "timeout", "raised" }

\* a reaction that check accepts: wait_for returns it, and the branch of the
\* chain calls its command with the ticker of the menu.  The command awaits
\* in its turn: the coroutine is suspended with the command invoked and not
\* finished.
Accepted ==
    /\ last.kind = "dd" /\ last.pc = "wait"
    /\ \E user \in Users : \E reaction \in Emojis :
         /\ check(reaction, user)
         /\ last' = [last EXCEPT
                       !.pc = "command",
                       !.waited = reaction, !.by = user,
                       !.invoked = Append(@, [command |-> command_of(reaction),
                                              ticker |-> last.ticker])]
    /\ DDKeeps

\* the awaited command ends.  When it returns the try block goes on to the
\* removals; asyncio.TimeoutError from it is taken by the except clause; any
\* other exception leaves the coroutine.
CommandEnds ==
    /\ last.kind = "dd" /\ last.pc = "command"
    /\ \E outcome \in CommandOutcomes :
         last' = [last EXCEPT
                    !.pc = IF outcome = "raised" THEN "raised" ELSE "remove",
                    !.outcome = outcome]
    /\ DDKeeps

\* cfg.MENU_TIMEOUT passes: wait_for raises asyncio.TimeoutError, and the
\* except clause of the command takes it
TimedOut ==
    /\ last.kind = "dd" /\ last.pc = "wait"
    /\ last' = [last EXCEPT !.pc = "remove", !.waited = "timeout"]
    /\ DDKeeps

\* one turn of "for emoji in emoji_list: await msg.remove_reaction(emoji,
\* ctx.bot.user)", in the try block or in the except clause; the except
\* clause then sends the notice, the try block is over
RemoveReaction ==
    /\ last.kind = "dd" /\ last.pc = "remove"
    /\ last' = [last EXCEPT
                  !.reactions = remove_reaction(@, emoji_list[last.n + 1]),
                  !.n = IF last.n + 1 = Len(emoji_list) THEN 0 ELSE last.n + 1,
                  !.pc = IF last.n + 1 < Len(emoji_list) THEN "remove"
                         ELSE IF last.waited = "timeout"
                                 \/ last.outcome = "timeout" THEN "notice"
                         ELSE "done"]
    /\ DDKeeps

\* "await ctx.send(embed=embed)" of the except clause
SendNotice ==
    /\ last.kind = "dd" /\ last.pc = "notice"
    /\ last' = [last EXCEPT !.pc = "done", !.sent = Append(@, "timeout")]
    /\ DDKeeps

NextDD ==
    \/ SendMenu
    \/ AddReaction
    \/ PassedOver
    \/ Accepted
    \/ CommandEnds
    \/ TimedOut
    \/ RemoveReaction
    \/ SendNotice

SpecDD == InitDD /\ [][NextDD]_vars

\* C27: when the wait of the due-diligence menu ends by the timeout, no
\* due-diligence command is invoked from then on, the only steps left are the
\* removals and the notice of the except clause, and the command returns with
\* none of the bot's reactions left on the menu message and with one timeout
\* notice sent after the menu.
C27_TimeoutCleansUp ==
    (last.kind = "dd" /\ last.waited = "timeout")
        => /\ last.invoked = << >>
           /\ last.pc \in { "remove", "notice", "done" }
           /\ (last.pc = "done")
                 => /\ last.reactions = {}
                    /\ last.sent = << "menu", "timeout" >>

\* the command is over after a timeout that found the seven reactions on the
\* message
C27_Witness ==
    /\ last.kind = "dd" /\ last.pc = "done" /\ last.waited = "timeout"
    /\ last.events > 0
    /\ Len(last.sent) = 2

\* the step logged at i is a dispatch of the line that the menu rejected
RejectedAt(i, menu, line) ==
    /\ log[i].kind = "turn"
    /\ log[i].menu = menu
    /\ log[i].line = line
    /\ log[i].result = "SystemExit"

\* C28: in the turns that follow one typed line, up to the next read or the
\* exit, a line that the menu does not recognize is dispatched once as typed
\* and at most once more after its correction: no line is rejected three
\* times, so the turns end and the queue stays bounded.
C28_RecoveryEnds ==
    (log # << >> /\ log[1].src = "input")
        => \A i \in 1..Len(log) : \A j \in (i + 1)..Len(log) :
              \A k \in (j + 1)..Len(log) :
                 ~ /\ RejectedAt(i, log[i].menu, log[i].line)
                   /\ RejectedAt(j, log[i].menu, log[i].line)
                   /\ RejectedAt(k, log[i].menu, log[i].line)

\* C29: when the first segment of a typed line is rejected and replaced, the
\* turn that takes the replacement from the queue leaves on the queue the
\* later segments of the typed line as the first turn had put them there, each
\* once: it puts none of them there a second time.
C29_SegmentsQueuedOnce ==
    ( /\ Len(log) >= 2
      /\ log[1].kind = "turn" /\ log[1].src = "input"
      /\ log[1].menu \in SubMenus
      /\ log[1].result = "SystemExit" /\ log[1].path = "replaced"
      /\ log[2].kind = "turn" /\ log[2].src = "queue"
      /\ \/ log[2].result = "SystemExit"
         \/ /\ log[2].result = "handled"
            /\ InList(log[2].cmd, CHOICES_COMMANDS(log[2].menu)) )
        => log[2].left = log[1].left

\* C30: every name of the legal-name list of fa, fmp, pred and qa, once
\* switch has redirected it, names a call_ method of the controller, so that
\* the lookup of switch never falls to its default for a legal name.
C30_LegalNamesHaveHandlers ==
    (last.kind = "name" /\ last.times > 0) => last.handler

\* the turn in last is one of fa, fmp, pred or qa in which switch ran the
\* quit command, named by quit, q or ..
QuitTurn ==
    /\ last.kind = "turn"
    /\ last.menu \in SubMenus
    /\ last.result = "handled"
    /\ last.cmd = w_quit

\* C31: when quit, q or .. is dispatched through switch, typed or as the
\* first segment of a path, switch leaves one exit token at the front of the
\* queue, before the later segments of the path and the lines that were
\* pending; the next step of the menu is its return, with no read and no
\* dispatch, and it hands these lines, in their order, to the parent.
C31_QuitReturnsThePending ==
    [][ QuitTurn
          => /\ last.left = << w_quit >> \o path_queue(last.line, last.pending)
             /\ last.queue = last.left
             /\ last'.kind = "exit"
             /\ last'.menu = last.menu
             /\ Len(stack') = Len(stack) - 1
             /\ stack'[Len(stack')].queue = path_queue(last.line, last.pending)
      ]_vars

\* the menu has returned after "../cash" was typed in it, and cash is with
\* the parent
C31_Witness ==
    /\ last.kind = "exit"
    /\ last.menu \in SubMenus
    /\ Len(log) >= 2
    /\ log[Len(log) - 1].kind = "turn"
    /\ log[Len(log) - 1].src = "input"
    /\ log[Len(log) - 1].cmd = w_quit
    /\ log[Len(log) - 1].line = <<".", ".", "/", "c", "a", "s", "h">>
    /\ Top.queue = << <<"c", "a", "s", "h">> >>

\* the commands every menu has, by the names switch redirects the aliases to
UniversalCommands == { w_cls, w_home, w_help, w_quit, w_exit, w_reset }

\* C32: a turn of fa, fmp, pred or qa on a universal command, or on an empty
\* line, leaves the ticker and the target column of the menu as they were
\* before the turn; on an empty line switch runs no command and leaves the
\* queue as it took it.
C32_UniversalCommandsKeepTheContext ==
    ( /\ last.kind = "turn"
      /\ last.menu \in SubMenus
      /\ \/ last.result = "empty"
         \/ last.result = "handled" /\ last.cmd \in UniversalCommands )
        => /\ stack[last.depth].menu = last.menu
           /\ stack[last.depth].ticker = last.ticker
           /\ stack[last.depth].target = last.target
           /\ (last.result = "empty")
                 => /\ last.cmd = << >>
                    /\ last.left = last.pending
                    /\ stack[last.depth].queue = last.pending

\* help has run in qa when a pick had made the target column Volume
C32_Witness ==
    /\ last.kind = "turn"
    /\ last.menu = "qa"
    /\ last.result = "handled"
    /\ last.cmd = w_help
    /\ last.target = <<"V", "o", "l", "u", "m", "e">>
    /\ Top.target = <<"V", "o", "l", "u", "m", "e">>



(***************************************************************************)
(* The handlers of fa, pred and qa taken alone.  A fifth specification     *)
(* calls one handler on arguments and a context drawn from small sets;     *)
(* last holds the call and, after it, what the handler left.               *)
(*                                                                         *)
(* load: the context is the ticker, the start, the interval and, in pred   *)
(* and qa, the dataset (named here by the ticker it was asked for).        *)
(***************************************************************************)
\* the dataset after call_load of pred and qa ("if not
\* df_stock_candidate.empty: self.stock = df_stock_candidate"), named by the
\* ticker it was asked for; fa holds no dataset
load_stock(menu, stock, ns_parser, out) ==
    IF menu \in { "pred", "qa" } /\ ns_parser.ok /\ out = "ok"
    THEN IF ns_parser.ticker_is_None THEN w_None ELSE ns_parser.ticker
    ELSE stock

\* whether call_load reached "self.start = ns_parser.start" and the line
\* after it: fa assigns the two before it reads the ticker, pred and qa
\* after it, where a ticker of None has raised TypeError
load_reached_start(menu, ns_parser, out) ==
    /\ ns_parser.ok /\ out = "ok"
    /\ menu \in { "pred", "qa" } => ~ns_parser.ticker_is_None

\* the context after call_load: the ticker as the handler of the menu leaves
\* it, the start and the interval assigned beside it
load_context(menu, context, other_args, ns_parser, out) ==
    [ticker |-> call_command(menu, w_load, context.ticker, other_args, out).ticker,
     start |-> IF load_reached_start(menu, ns_parser, out)
               THEN ns_parser.start
               ELSE context.start,
     interval |-> IF load_reached_start(menu, ns_parser, out)
                  THEN ns_parser.interval \o <<"m", "i", "n">>
                  ELSE context.interval,
     stock |-> load_stock(menu, context.stock, ns_parser, out)]

\* the arguments given to load
LoadArgs ==
    { << >>,
      << <<"A", "A", "P", "L">> >>,
      << <<"t", "s", "l", "a", ".", "n", "s">> >>,
      << <<"-", "t">>, <<"b", "b">> >>,
      << <<"-", "h">> >>,
      << <<"A", "A", "P", "L">>, <<"-", "s">>, <<"2", "0", "2", "0", "-", "0", "1", "-", "0", "1">> >>,
      << <<"a", "a", "p", "l">>, <<"-", "i">>, <<"5">> >>,
      << <<"t", "s", "l", "a", ".", "n", "s">>, <<"-", "s">>, <<"2", "0", "2", "0", "-", "0", "1", "-", "0", "1">>, <<"-", "i">>, <<"5">> >>,
      << <<"-", "s">>, <<"2", "0", "2", "0", "-", "0", "1", "-", "0", "1">> >>,
      << <<"A", "A", "P", "L">>, <<"-", "-", "t", "i", "c", "k">>, <<"M", "S", "F", "T">> >>,
      << <<"A", "A", "P", "L">>, <<"-", "i">>, <<"0", "5">> >>,
      << <<"A", "A", "P", "L">>, <<"-", "-", "s", "o", "u">>, <<"z", "z">> >>,
      << <<"A", "A", "P", "L">>, <<"-", "e">> >>,
      << <<"A", "A", "P", "L">>, <<"-", "s">>, <<"2", "0", "2", "0", "-", "2", "-", "3", "0">> >>,
      << <<"A", "A", "P", "L">>, <<"-", "s">>, <<"2", "0", "2", "0", "-", "1", "-", "1">>, <<"-", "s">>, <<"2", "0", "2", "1", "-", "3", "-", "1">> >>,
      << <<"-", "-">>, <<"-", "h">> >> }

\* the context of a menu entered without a ticker, and one with GME loaded
LoadContexts ==
    { [ticker |-> << >>, start |-> << >>, interval |-> <<"1", "4", "4", "0", "m", "i", "n">>,
       stock |-> << >>],
      [ticker |-> <<"G", "M", "E">>, start |-> <<"2", "0", "1", "9", "-", "0", "6", "-", "0", "1">>, interval |-> <<"6", "0", "m", "i", "n">>,
       stock |-> <<"G", "M", "E">>] }


(***************************************************************************)
(* regression of pred: the default flag -p of its arguments.               *)
(***************************************************************************)
RegressionTokens == { <<"-", "p">>, <<"-", "-", "p", "o", "l", "y", "n", "o", "m", "i", "a", "l">>, <<"-", "h">>, <<"2">> }

RegressionArgLists == UNION { [1..n -> RegressionTokens] : n \in 0..MaxArgs }

\* "if other_args and "-h" not in other_args and ("-p" not in other_args or
\* "--polynomial" not in other_args): other_args.insert(0, "-p")"
prepend_polynomial(other_args) ==
    IF /\ other_args # << >>
       /\ ~InList(<<"-", "h">>, other_args)
       /\ \/ ~InList(<<"-", "p">>, other_args)
          \/ ~InList(<<"-", "-", "p", "o", "l", "y", "n", "o", "m", "i", "a", "l">>, other_args)
    THEN << <<"-", "p">> >> \o other_args
    ELSE other_args

(***************************************************************************)
(* ets, regression and arima of pred: the backtesting check.  Dates are    *)
(* counted in market days; first is self.stock.index[0].                   *)
(***************************************************************************)
MaxDate == 12

BacktestCommands == { "ets", "regression", "arima" }

\* get_next_stock_market_days(last_stock_day, n_next_days)[-1]
last_next_market_day(last_stock_day, n_next_days) == last_stock_day + n_next_days

\* the messages of the check, in the order they are printed
backtesting_check(s_end_date, first, n_days) ==
    IF ~s_end_date.given THEN << >>
    ELSE (IF s_end_date.day < first THEN << "older" >> ELSE << >>)
         \o (IF s_end_date.day < last_next_market_day(first, 5 + n_days)
             THEN << "too close" >> ELSE << >>)

\* the handler after the parse: the check, then the call of the view
call_forecast(cmd, s_end_date, first, n_days) ==
    [printed |-> backtesting_check(s_end_date, first, n_days),
     invoked |-> << cmd >>]

(***************************************************************************)
(* The calls.                                                              *)
(***************************************************************************)
LoadCalls ==
    { [kind |-> "load", menu |-> menu, context |-> context,
       other_args |-> other_args,
       ns_parser |-> parse_load(menu, prepend_flag(other_args)), out |-> out] :
         menu \in { "fa", "pred", "qa" }, context \in LoadContexts,
         other_args \in LoadArgs, out \in Outcomes }

RegressionCalls ==
    { [kind |-> "regression", other_args |-> other_args] :
         other_args \in RegressionArgLists }

ForecastCalls ==
    { [kind |-> "forecast", cmd |-> cmd,
       s_end_date |-> [given |-> given, day |-> day], first |-> first,
       n_days |-> n_days] :
         cmd \in BacktestCommands, given \in BOOLEAN, day \in 0..MaxDate,
         first \in { 0, 2 }, n_days \in { 1, 5 } }

InitHandlers ==
    /\ stack = << >>
    /\ awaiting = FALSE
    /\ app = "running"
    /\ returned = << >>
    /\ log = << >>
    /\ notices = 0
    /\ last \in [call : LoadCalls \cup RegressionCalls \cup ForecastCalls,
                 done : { FALSE }, left : { << >> }]

\* call_load of fa, pred or qa
Load ==
    /\ ~last.done /\ last.call.kind = "load"
    /\ last' = [last EXCEPT !.done = TRUE,
                  !.left = load_context(last.call.menu, last.call.context,
                                        last.call.other_args,
                                        last.call.ns_parser, last.call.out)]
    /\ UNCHANGED << stack, awaiting, app, returned, log, notices >>

\* call_regression up to the parse
Regression ==
    /\ ~last.done /\ last.call.kind = "regression"
    /\ last' = [last EXCEPT !.done = TRUE,
                  !.left = prepend_polynomial(last.call.other_args)]
    /\ UNCHANGED << stack, awaiting, app, returned, log, notices >>

\* call_ets, call_regression and call_arima after the parse
Forecast ==
    /\ ~last.done /\ last.call.kind = "forecast"
    /\ last' = [last EXCEPT !.done = TRUE,
                  !.left = call_forecast(last.call.cmd, last.call.s_end_date,
                                         last.call.first, last.call.n_days)]
    /\ UNCHANGED << stack, awaiting, app, returned, log, notices >>

NextHandlers == Load \/ Regression \/ Forecast

SpecHandlers == InitHandlers /\ [][NextHandlers]_vars

\* C33: load changes the context only when its arguments parse and the data
\* collaborator returns data: then the ticker is the one asked for, in upper
\* case and cut at its first ".", and the start, the interval and, in pred
\* and qa, the dataset are those of the same call; otherwise the ticker, the
\* start, the interval and the dataset are all what they were.
C33_LoadAllOrNothing ==
    (last.done /\ last.call.kind = "load")
        => IF last.call.ns_parser.ok /\ last.call.out = "ok"
           THEN /\ last.left.ticker
                      = SplitOn(Upper(last.call.ns_parser.ticker), ".")[1]
                /\ last.left.start = last.call.ns_parser.start
                /\ last.left.interval = last.call.ns_parser.interval \o <<"m", "i", "n">>
                /\ last.call.menu \in { "pred", "qa" }
                      => last.left.stock = last.call.ns_parser.ticker
                /\ last.call.menu = "fa"
                      => last.left.stock = last.call.context.stock
           ELSE last.left = last.call.context

\* C34: when the due-diligence command is over, by its return or by an
\* exception that leaves it, none of the reactions the bot added is on the
\* menu message: after a timeout, after the selected command returned, and
\* after the selected command raised.
C34_ReactionsRemovedOnEveryPath ==
    (last.kind = "dd" /\ last.pc \in { "done", "raised" })
        => last.reactions = {}

\* C35: called with an empty ticker the due-diligence command sends the
\* "A stock ticker is required" error and stops: it posts no menu, adds no
\* reaction and waits for none.
C35_EmptyTickerStops ==
    (last.kind = "dd" /\ last.ticker = << >> /\ last.pc # "send")
        => /\ last.pc = "done"
           /\ last.sent = << "error" >>
           /\ last.reactions = {}
           /\ last.waited = "none"

\* the command listed beside each emoji of the menu
ListedCommand(reaction) ==
    CASE reaction = "0" -> "analyst"
      [] reaction = "1" -> "pt"
      [] reaction = "2" -> "est"
      [] reaction = "3" -> "sec"
      [] reaction = "4" -> "supplier"
      [] reaction = "5" -> "customer"
      [] reaction = "6" -> "arktrades"
      [] OTHER -> "none"

\* C36: the wait of the due-diligence menu ends by the timeout, with no
\* command invoked, or by a reaction of the user who called the menu whose
\* emoji is one of the seven of the menu; then one command is invoked, the
\* one listed beside the emoji, with the ticker of the menu, and no other.
C36_OnlyTheListedCommand ==
    (last.kind = "dd" /\ last.pc \notin { "send", "add", "wait" })
        => \/ last.waited = "timeout" /\ last.invoked = << >>
           \/ /\ last.by = "author"
              /\ last.waited \in { "0", "1", "2", "3", "4", "5", "6" }
              /\ last.invoked = << [command |-> ListedCommand(last.waited),
                                    ticker |-> last.ticker] >>

\* the author has chosen 3 after reactions that the wait passed over, and the
\* command, sec, has returned
C36_Witness ==
    /\ last.kind = "dd" /\ last.pc = "done"
    /\ last.events > 0
    /\ last.by = "author" /\ last.waited = "3"
    /\ last.outcome = "ok"
    /\ last.invoked = << [command |-> "sec", ticker |-> <<"A", "A", "P", "L">>] >>

\* C37: regression puts -p in front of its arguments only when the list is
\* not empty, asks for no help and names neither -p nor --polynomial; a list
\* that names the polynomial flag goes to the parser as it is.
C37_PolynomialFlagPrepended ==
    (last.done /\ last.call.kind = "regression")
        => IF /\ last.call.other_args # << >>
              /\ ~InList(<<"-", "h">>, last.call.other_args)
              /\ ~InList(<<"-", "p">>, last.call.other_args)
              /\ ~InList(<<"-", "-", "p", "o", "l", "y", "n", "o", "m", "i", "a", "l">>, last.call.other_args)
           THEN last.left = << <<"-", "p">> >> \o last.call.other_args
           ELSE last.left = last.call.other_args

\* C38: ets, regression and arima, given a backtesting end date older than
\* the first date of the data or too close to it, print the message and do
\* not call the forecasting view.
C38_BacktestingNotAllowed ==
    (last.done /\ last.call.kind = "forecast" /\ last.left.printed # << >>)
        => last.left.invoked = << >>

====
